---- MODULE Spec2Model ----
(***************************************************************************)
(* Entitlement reconciliation: the RevenueCat webhook                       *)
(* (supabase/functions/revenuecat-webhook/index.ts) and the purchase        *)
(* validation endpoint (supabase/functions/process-purchase/index.ts),      *)
(* both writing the user_permissions table.                                 *)
(*                                                                          *)
(* Every request is a stateless handler invocation.  An invocation is cut   *)
(* at its awaited datastore / provider calls: one action runs the code up   *)
(* to and including one awaited call, so that other invocations can         *)
(* interleave exactly where the code suspends.                              *)
(***************************************************************************)
EXTENDS Integers, Sequences, FiniteSets, TLC

VARIABLES table, now, inv, started, replay, userPermissions,
          eventBuffer, storedBuffer, isInitialized, tracked, flush

vars == <<table, now, inv, started, replay, userPermissions,
          eventBuffer, storedBuffer, isInitialized, tracked, flush>>

\* the state of the app's analytics service (src/services/analytics.js)
analytics == <<eventBuffer, storedBuffer, isInitialized, tracked, flush>>

\* the state of the server and of the app's permission cache
server == <<table, now, inv, started, replay, userPermissions>>

(***************************************************************************)
(* Bounds of the model                                                      *)
(***************************************************************************)
MaxTime == 1          \* the wall clock runs over 0..MaxTime (epoch ms)
MaxRequests == 2      \* invocations started in one behaviour
MaxSlots == 2         \* invocations in flight at the same time
MaxReplays == 2       \* deliveries of the replayed event (replay scenario)
MaxPrepare == 1       \* requests served before the replayed event (replay scenario)
MaxEvents == 2        \* events the app tracks in one behaviour
MaxBuffer == 4        \* longest analytics buffer followed

Times == 0..MaxTime
Slots == 1..MaxSlots

(***************************************************************************)
(* Values                                                                   *)
(***************************************************************************)
NULL == "null"                 \* JS null / SQL NULL in a string-typed place
UNDEFINED == "undefined"       \* JS undefined in a string-typed place
NULL_MS == -1                  \* JSON null in expiration_at_ms (number | null)

Users == {"u1", "u2"}
Products == {"sku_month", "sku_year"}

EventType == {"INITIAL_PURCHASE", "RENEWAL", "CANCELLATION", "EXPIRATION",
              "PRODUCT_CHANGE", "BILLING_ISSUE", "SUBSCRIBER_ALIAS"}

WEBHOOK_SECRET == "whsec"      \* Deno.env REVENUECAT_WEBHOOK_SECRET, configured

(***************************************************************************)
(* Date conversions.  A Date is its epoch-millisecond value; toISOString    *)
(* renders it, new Date(string) parses it back and new Date(null) is the    *)
(* epoch.                                                                   *)
(***************************************************************************)
IsoTable == <<"1970-01-01T00:00:00.000Z", "1970-01-01T00:00:00.001Z",
              "1970-01-01T00:00:00.002Z", "1970-01-01T00:00:00.003Z",
              "1970-01-01T00:00:00.004Z", "1970-01-01T00:00:00.005Z",
              "1970-01-01T00:00:00.006Z", "1970-01-01T00:00:00.007Z">>

toISOString(ms) == IsoTable[ms + 1]

\* new Date(x).getTime() for x a stored expires_at (ISO string or null)
DateParse(s) ==
    IF s = NULL THEN 0
    ELSE CHOOSE ms \in 0..(Len(IsoTable) - 1) : IsoTable[ms + 1] = s

\* expression `expiration_at_ms || 0`: null and 0 are both falsy
OrZero(ms) == IF ms = NULL_MS \/ ms = 0 THEN 0 ELSE ms

\* String.prototype.toLowerCase on the store names
toLowerCase(s) ==
    CASE s = "APP_STORE" -> "app_store"
      [] s = "PLAY_STORE" -> "play_store"
      [] OTHER -> s

\* variant: the new fields alone
SpreadReplacing(a, b) == b

\* object spread { ...a, ...b }: keys of b win
Spread(a, b) ==
    [k \in (DOMAIN a) \cup (DOMAIN b) |-> IF k \in DOMAIN b THEN b[k] ELSE a[k]]

EmptyObject == [k \in {} |-> NULL]

(***************************************************************************)
(* The user_permissions table: a set of rows.  Upsert key is                *)
(* (profile_id, permission_id).                                             *)
(***************************************************************************)
Columns == {"profile_id", "permission_id", "active", "expires_at",
            "product_id", "platform", "revenuecat_user_id", "metadata"}

\* column default of a row inserted without that column
ColumnDefault(c) == IF c = "metadata" THEN EmptyObject ELSE NULL

SameKey(r, p) ==
    r.profile_id = p.profile_id /\ r.permission_id = p.permission_id

\* variant: a plain insert, with no conflict target
UpsertInsertOnly(t, payload) ==
    t \cup {[c \in Columns |->
                IF c \in DOMAIN payload THEN payload[c] ELSE ColumnDefault(c)]}

\* variant: the row written replaces the rows of the same profile
UpsertReplacingProfile(t, payload) ==
    {r \in t : r.profile_id # payload.profile_id}
      \cup {[c \in Columns |->
                IF c \in DOMAIN payload THEN payload[c] ELSE ColumnDefault(c)]}

\* .upsert(payload): insert, or on a key conflict update the payload's columns
Upsert(t, payload) ==
    LET hit == {r \in t : SameKey(r, payload)}
        kept == t \ hit
        merged == {[c \in Columns |->
                      IF c \in DOMAIN payload THEN payload[c] ELSE r[c]] : r \in hit}
        fresh == [c \in Columns |->
                      IF c \in DOMAIN payload THEN payload[c] ELSE ColumnDefault(c)]
    IN IF hit = {} THEN t \cup {fresh} ELSE kept \cup merged

\* variant: the permission filter is left out of the query
SelectKeyAnyPermission(t, u, k) == {r \in t : r.profile_id = u}

\* .select('*').eq('profile_id', u).eq('permission_id', k)
SelectKey(t, u, k) == {r \in t : r.profile_id = u /\ r.permission_id = k}

\* ... .eq('active', true) added by the purchase endpoint
SelectActive(t, u, k) == {r \in SelectKey(t, u, k) : r.active = TRUE}

\* .maybeSingle(): more than one row is an error, otherwise data is the row or null
MaybeSingleError(rows) == Cardinality(rows) > 1

(***************************************************************************)
(* Webhook requests                                                         *)
(***************************************************************************)
\* expiration_at_ms values a provider event carries
ExpiryMs == {NULL_MS} \cup (1..(MaxTime + 1))

KeyedEvent(type, u, k) ==
    [type |-> type, original_app_user_id |-> u, entitlement_id |-> k,
     product_id |-> "sku_month", expiration_at_ms |-> MaxTime + 1,
     store |-> "APP_STORE", environment |-> "PRODUCTION",
     transaction_id |-> "t1"]

\* the (user, entitlement) pairs the provider sends events for
EventKeys == {<<"u1", "product_a">>, <<"u2", "product_b">>}

\* the store a product is sold in
StoreOf(product) == IF product = "sku_month" THEN "APP_STORE" ELSE "PLAY_STORE"

ActivationEvents ==
    {[KeyedEvent(type, key[1], key[2]) EXCEPT !.product_id = product,
                                              !.store = StoreOf(product),
                                              !.expiration_at_ms = x] :
        type \in {"INITIAL_PURCHASE", "RENEWAL", "PRODUCT_CHANGE"},
        key \in EventKeys, product \in Products, x \in ExpiryMs}

CancellationEvents ==
    {[KeyedEvent("CANCELLATION", key[1], key[2]) EXCEPT !.expiration_at_ms = x] :
        key \in EventKeys, x \in ExpiryMs}

OtherEvents ==
    {KeyedEvent(type, key[1], key[2]) :
        type \in {"EXPIRATION", "BILLING_ISSUE", "SUBSCRIBER_ALIAS"},
        key \in EventKeys}

ProductionEvents == ActivationEvents \cup CancellationEvents \cup OtherEvents

SandboxEvents ==
    {[KeyedEvent(type, "u1", "product_a") EXCEPT !.environment = "SANDBOX"] :
        type \in EventType}

Events == ProductionEvents \cup SandboxEvents

\* the raw request text: an event serialised with some whitespace (pad), or
\* text that is not JSON
RawBody(e, pad) == [wellformed |-> TRUE, event |-> e, pad |-> pad]
NotJson == [wellformed |-> FALSE, event |-> KeyedEvent("EXPIRATION", "u1", "product_a"),
            pad |-> 0]

\* JSON.parse(body) of a well-formed body: whitespace is not part of the value
JSONparse(body) == body.event

\* hex HMAC-SHA256 of the raw text under a secret: determined by both, and
\* different for different texts or secrets
HmacSha256Hex(secret, body) == <<secret, body>>

\* X-RevenueCat-Signature header: absent (null), or a string, "" being <<>>
NoHeader == [present |-> FALSE, value |-> <<>>]
Header(v) == [present |-> TRUE, value |-> v]

\* one byte of the body changed after signing
Tamper(body) == [body EXCEPT !.pad = 1 - body.pad]

Signed(body) ==
    [method |-> "POST", body |-> body,
     signature |-> Header(HmacSha256Hex(WEBHOOK_SECRET, body))]

SampleBodies ==
    {RawBody(KeyedEvent("INITIAL_PURCHASE", "u1", "product_a"), 0),
     RawBody(KeyedEvent("EXPIRATION", "u1", "product_a"), 0),
     NotJson}

BadSignatures(body) ==
    {NoHeader, Header(<<>>),
     Header(HmacSha256Hex(WEBHOOK_SECRET, Tamper(body))),
     Header(HmacSha256Hex("other", body))}

WebhookRequests ==
    {Signed(RawBody(e, 0)) : e \in Events}
      \cup {Signed(RawBody(e, 1)) : e \in SandboxEvents}
      \cup {Signed(NotJson)}
      \cup UNION {{[method |-> "POST", body |-> b, signature |-> sg] :
                      sg \in BadSignatures(b)} : b \in SampleBodies}
      \cup {[Signed(NotJson) EXCEPT !.method = m] : m \in {"OPTIONS", "GET"}}

\* variant: a request without a signature header is let through
verifySignatureFailOpen(body, signature, secret) ==
    IF ~signature.present \/ signature.value = <<>>
    THEN TRUE
    ELSE signature.value = HmacSha256Hex(secret, body)

\* verifySignature(body, signature, secret).isValid
verifySignature(body, signature, secret) ==
    IF ~signature.present \/ signature.value = <<>>
    THEN FALSE
    ELSE signature.value = HmacSha256Hex(secret, body)

(***************************************************************************)
(* Invocations: the local variables of one running request handler, what    *)
(* it has done so far (fx) and its HTTP response once it has returned.      *)
(***************************************************************************)
Response(status, body) == [status |-> status, body |-> body]
NoResponse == Response(0, EmptyObject)

NoEffects == [reads |-> 0, writes |-> 0, parsed |-> FALSE, handler |-> "none",
              provider |-> {}]

NoValidation == [success |-> FALSE, expires_at |-> UNDEFINED,
                 entitlement_id |-> UNDEFINED,
                 original_transaction_id |-> UNDEFINED, error |-> UNDEFINED]

Idle == [kind |-> "none", pc |-> "idle", type |-> "", userId |-> "",
         entitlementId |-> "", productId |-> "", platform |-> "",
         receipt |-> "", expiresAt |-> 0, existing |-> {},
         permissionError |-> FALSE,
         validation |-> NoValidation, fx |-> NoEffects, resp |-> NoResponse]

\* the handler returns resp, having done fx
Returned(i, fx, resp) == [i EXCEPT !.pc = "done", !.fx = fx, !.resp = resp]

Read(fx) == [fx EXCEPT !.reads = @ + 1]
Wrote(fx) == [fx EXCEPT !.writes = @ + 1]

(***************************************************************************)
(* Webhook: payloads of the four transition handlers                        *)
(***************************************************************************)
\* existingPermission?.metadata || {}
ExistingMetadata(existing) ==
    IF existing = {} THEN EmptyObject
    ELSE (CHOOSE r \in existing : TRUE).metadata

\* existingPermission?.expires_at || null
ExistingExpiresAt(existing) ==
    IF existing = {} THEN NULL
    ELSE (CHOOSE r \in existing : TRUE).expires_at

ActivationPayload(userId, entitlementId, productId, platform, expiresAt, transactionId, clock) ==
    [profile_id |-> userId,
     permission_id |-> entitlementId,
     active |-> TRUE,
     expires_at |-> toISOString(expiresAt),
     product_id |-> productId,
     platform |-> platform,
     revenuecat_user_id |-> userId,
     metadata |-> [transaction_id |-> transactionId,
                   updated_at |-> toISOString(clock),
                   status |-> "active",
                   source |-> "webhook"]]

\* variant: a cancellation that revokes at once
CancellationPayloadRevoking(userId, entitlementId, expiresAt, existing, clock) ==
    [profile_id |-> userId,
     permission_id |-> entitlementId,
     active |-> FALSE,
     expires_at |-> toISOString(expiresAt),
     metadata |-> Spread(ExistingMetadata(existing),
                         [status |-> "cancelled",
                          cancelled_at |-> toISOString(clock),
                          source |-> "webhook"])]

\* variant: a cancellation never moves the stored expiry back
CancellationPayloadMonotonic(userId, entitlementId, expiresAt, existing, clock) ==
    [profile_id |-> userId,
     permission_id |-> entitlementId,
     active |-> TRUE,
     expires_at |-> IF DateParse(ExistingExpiresAt(existing)) > expiresAt
                    THEN ExistingExpiresAt(existing)
                    ELSE toISOString(expiresAt),
     metadata |-> Spread(ExistingMetadata(existing),
                         [status |-> "cancelled",
                          cancelled_at |-> toISOString(clock),
                          source |-> "webhook"])]

CancellationPayload(userId, entitlementId, expiresAt, existing, clock) ==
    [profile_id |-> userId,
     permission_id |-> entitlementId,
     active |-> TRUE,
     expires_at |-> toISOString(expiresAt),
     metadata |-> Spread(ExistingMetadata(existing),
                         [status |-> "cancelled",
                          cancelled_at |-> toISOString(clock),
                          source |-> "webhook"])]

\* variant: an expiration that stamps the time of processing as the expiry
ExpirationPayloadNow(userId, entitlementId, existing, clock) ==
    [profile_id |-> userId,
     permission_id |-> entitlementId,
     active |-> FALSE,
     expires_at |-> toISOString(clock),
     metadata |-> Spread(ExistingMetadata(existing),
                         [status |-> "expired",
                          expired_at |-> toISOString(clock),
                          source |-> "webhook"])]

\* variant: an expiration that also clears the product and the store
ExpirationPayloadClearingProduct(userId, entitlementId, existing, clock) ==
    [profile_id |-> userId,
     permission_id |-> entitlementId,
     active |-> FALSE,
     expires_at |-> ExistingExpiresAt(existing),
     product_id |-> NULL,
     platform |-> NULL,
     metadata |-> Spread(ExistingMetadata(existing),
                         [status |-> "expired",
                          expired_at |-> toISOString(clock),
                          source |-> "webhook"])]

ExpirationPayload(userId, entitlementId, existing, clock) ==
    [profile_id |-> userId,
     permission_id |-> entitlementId,
     active |-> FALSE,
     expires_at |-> ExistingExpiresAt(existing),
     metadata |-> Spread(ExistingMetadata(existing),
                         [status |-> "expired",
                          expired_at |-> toISOString(clock),
                          source |-> "webhook"])]

\* variant: a billing issue flips the flag the row carries
BillingIssuePayloadToggling(userId, entitlementId, existing, clock) ==
    [profile_id |-> userId,
     permission_id |-> entitlementId,
     active |-> TRUE,
     expires_at |-> ExistingExpiresAt(existing),
     metadata |-> Spread(ExistingMetadata(existing),
                         [billing_issue |->
                              ~("billing_issue" \in DOMAIN ExistingMetadata(existing)
                                  /\ ExistingMetadata(existing).billing_issue = TRUE),
                          billing_issue_detected_at |-> toISOString(clock),
                          source |-> "webhook"])]

\* variant: a billing issue that takes the expiry away
BillingIssuePayloadNoExpiry(userId, entitlementId, existing, clock) ==
    [profile_id |-> userId,
     permission_id |-> entitlementId,
     active |-> TRUE,
     expires_at |-> NULL,
     metadata |-> Spread(ExistingMetadata(existing),
                         [billing_issue |-> TRUE,
                          billing_issue_detected_at |-> toISOString(clock),
                          source |-> "webhook"])]

BillingIssuePayload(userId, entitlementId, existing, clock) ==
    [profile_id |-> userId,
     permission_id |-> entitlementId,
     active |-> TRUE,
     expires_at |-> ExistingExpiresAt(existing),
     metadata |-> Spread(ExistingMetadata(existing),
                         [billing_issue |-> TRUE,
                          billing_issue_detected_at |-> toISOString(clock),
                          source |-> "webhook"])]

ActivationTypes == {"INITIAL_PURCHASE", "RENEWAL", "PRODUCT_CHANGE"}

\* variant: the alias event falls into a handler
ReadFirstTypesWithAlias == {"CANCELLATION", "EXPIRATION", "BILLING_ISSUE",
                            "SUBSCRIBER_ALIAS"}

ReadFirstTypes == {"CANCELLATION", "EXPIRATION", "BILLING_ISSUE"}

WebhookError == Response(500, [status |-> "error",
                               message |-> "Server error processing webhook"])
Processed(type) == Response(200, [status |-> "processed", event_type |-> type])
Skipped == Response(200, [status |-> "skipped",
                          reason |-> "non-production environment"])
Unauthorized == Response(401, [error |-> "Invalid signature"])
MethodNotAllowed == Response(405, [error |-> "Method not allowed"])
Preflight == Response(204, EmptyObject)

(***************************************************************************)
(* Webhook serve(): from the arrival of the request to its first awaited    *)
(* datastore call (or to its response when it makes none).  dbError is the  *)
(* outcome of that call.  The result is the invocation and the table.       *)
(***************************************************************************)
Step(i, t) == [inv |-> i, table |-> t]

\* variant: no environment test
IsProductionAlways(eventData) == TRUE

\* eventData.environment !== "PRODUCTION" is the skip test
IsProduction(eventData) == eventData.environment = "PRODUCTION"

\* variant: no early return
NoExistingPermissionIgnored(rows) == FALSE

\* if (!existingPermission) return;  in handleBillingIssue
NoExistingPermission(rows) == rows = {}

\* variant: the error of the read is not looked at
ReadFailedIgnored(dbError, rows) == FALSE

\* if (fetchError) throw fetchError;  after the .maybeSingle() read
ReadFailed(dbError, rows) == dbError \/ MaybeSingleError(rows)

ServeWebhook(req, dbError, t, clock) ==
    LET w == [Idle EXCEPT !.kind = "webhook"]
    IN
    IF req.method = "OPTIONS" THEN Step(Returned(w, NoEffects, Preflight), t)
    ELSE IF req.method # "POST"
    THEN Step(Returned(w, NoEffects, MethodNotAllowed), t)
    ELSE IF ~verifySignature(req.body, req.signature, WEBHOOK_SECRET)
    THEN Step(Returned(w, NoEffects, Unauthorized), t)
    ELSE IF ~req.body.wellformed
    THEN Step(Returned(w, NoEffects, WebhookError), t)
    ELSE
    LET eventData == JSONparse(req.body)
        userId == eventData.original_app_user_id
        entitlementId == eventData.entitlement_id
        i == [w EXCEPT !.type = eventData.type, !.userId = userId,
                       !.entitlementId = entitlementId]
        parsed == [NoEffects EXCEPT !.parsed = TRUE]
        expiresAt == OrZero(eventData.expiration_at_ms)
    IN
    IF ~IsProduction(eventData)
    THEN Step(Returned(i, parsed, Skipped), t)
    ELSE IF eventData.type \in ActivationTypes
    THEN LET fx == Wrote([parsed EXCEPT !.handler = "handleSubscriptionActivation"])
         IN IF dbError
            THEN Step(Returned(i, fx, WebhookError), t)
            ELSE Step(Returned(i, fx, Processed(eventData.type)),
                      Upsert(t, ActivationPayload(userId, entitlementId,
                                   eventData.product_id,
                                   toLowerCase(eventData.store), expiresAt,
                                   eventData.transaction_id, clock)))
    ELSE IF eventData.type \in ReadFirstTypes
    THEN LET handler == CASE eventData.type = "CANCELLATION"
                               -> "handleSubscriptionCancellation"
                          [] eventData.type = "EXPIRATION"
                               -> "handleSubscriptionExpiration"
                          [] OTHER -> "handleBillingIssue"
             fx == Read([parsed EXCEPT !.handler = handler])
             rows == SelectKey(t, userId, entitlementId)
         IN IF ReadFailed(dbError, rows)
            THEN Step(Returned(i, fx, WebhookError), t)
            ELSE IF eventData.type = "BILLING_ISSUE" /\ NoExistingPermission(rows)
            THEN Step(Returned(i, fx, Processed(eventData.type)), t)
            ELSE Step([i EXCEPT !.pc = "upsert", !.fx = fx,
                                !.expiresAt = expiresAt, !.existing = rows], t)
    ELSE Step(Returned(i, parsed, Processed(eventData.type)), t)

\* the second awaited call of the cancellation, expiration and billing-issue
\* handlers: the upsert of the payload built from the record read before
HandlerPayload(i, clock) ==
    CASE i.type = "CANCELLATION"
           -> CancellationPayload(i.userId, i.entitlementId, i.expiresAt,
                                  i.existing, clock)
      [] i.type = "EXPIRATION"
           -> ExpirationPayload(i.userId, i.entitlementId, i.existing, clock)
      [] OTHER
           -> BillingIssuePayload(i.userId, i.entitlementId, i.existing, clock)

\* variant: the error of the upsert is logged and not thrown
HandlerUpsertSwallowing(i, dbError, t, clock) ==
    IF dbError
    THEN Step(Returned(i, Wrote(i.fx), Processed(i.type)), t)
    ELSE Step(Returned(i, Wrote(i.fx), Processed(i.type)),
              Upsert(t, HandlerPayload(i, clock)))

\* variant: the payload is built from the record as it is at the upsert
HandlerUpsertRereading(i, dbError, t, clock) ==
    IF dbError
    THEN Step(Returned(i, Wrote(i.fx), WebhookError), t)
    ELSE Step(Returned(i, Wrote(i.fx), Processed(i.type)),
              Upsert(t, HandlerPayload([i EXCEPT !.existing =
                                           SelectKey(t, i.userId, i.entitlementId)],
                                       clock)))

HandlerUpsert(i, dbError, t, clock) ==
    IF dbError
    THEN Step(Returned(i, Wrote(i.fx), WebhookError), t)
    ELSE Step(Returned(i, Wrote(i.fx), Processed(i.type)),
              Upsert(t, HandlerPayload(i, clock)))

(***************************************************************************)
(* Purchase endpoint                                                        *)
(***************************************************************************)
Platforms == {"ios", "android", "web"}

\* the receipt (iOS) or purchase token (Android) a user's device holds
ReceiptOf(userId) == IF userId = "u1" THEN "rcpt_1" ELSE "rcpt_2"

CompleteRequests ==
    {[method |-> "POST", wellformed |-> TRUE, receipt |-> ReceiptOf(u),
      platform |-> pf, userId |-> u, productId |-> pr] :
        pf \in Platforms, u \in Users, pr \in Products}

\* one of the four fields is the empty string (or missing)
Without(req, field) == [req EXCEPT ![field] = ""]

IncompleteRequests ==
    {Without([method |-> "POST", wellformed |-> TRUE, receipt |-> "rcpt_1",
              platform |-> "ios", userId |-> "u1", productId |-> "sku_month"], f) :
        f \in {"receipt", "platform", "userId", "productId"}}

PurchaseRequests ==
    CompleteRequests \cup IncompleteRequests
      \cup [method : {"OPTIONS", "GET", "POST"}, wellformed : {FALSE},
            receipt : {"rcpt_1"}, platform : {"ios"}, userId : {"u1"},
            productId : {"sku_month"}]

\* what the provider's POST /v1/receipts can answer: the fetch rejects, or an
\* HTTP response; a 2xx body has subscriber.entitlements.product_a or not,
\* and subscriber.subscriptions missing, empty, or with one subscription
ProviderExpiry == {NULL, toISOString(1), toISOString(MaxTime + 1)}

ProviderAnswer(outcome, status, entitled, expires, subs) ==
    [outcome |-> outcome, status |-> status, product_a |-> entitled,
     expires_date |-> expires, subscriptions |-> subs,
     original_transaction_id |-> "t1"]

ProviderAnswers ==
    {ProviderAnswer("reject", 0, FALSE, NULL, "missing"),
     ProviderAnswer("http", 500, FALSE, NULL, "missing"),
     ProviderAnswer("http", 200, FALSE, NULL, "empty")}
      \cup {ProviderAnswer("http", 200, TRUE, x, subs) :
              x \in ProviderExpiry, subs \in {"missing", "empty", "one"}}

Failure(error) == [NoValidation EXCEPT !.error = error]

UnsupportedPlatform(platform) ==
    CASE platform = "web" -> "Unsupported platform: web"
      [] OTHER -> "Unsupported platform"

ValidationFailed(status) ==
    CASE status = 500 -> "RevenueCat validation failed: 500"
      [] OTHER -> "RevenueCat validation failed"

\* variant: the Android branch also fills fetch_token
ProviderRequestBodyBothTokens(receipt, platform, userId) ==
    IF platform = "ios"
    THEN {[app_user_id |-> userId, fetch_token |-> receipt]}
    ELSE IF platform = "android"
    THEN {[app_user_id |-> userId, fetch_token |-> receipt,
           purchase_token |-> receipt]}
    ELSE {}

\* the request body built for the provider; the empty set when no call is made
ProviderRequestBody(receipt, platform, userId) ==
    IF platform = "ios"
    THEN {[app_user_id |-> userId, fetch_token |-> receipt]}
    ELSE IF platform = "android"
    THEN {[app_user_id |-> userId, purchase_token |-> receipt]}
    ELSE {}

\* validateReceiptWithRevenueCat(receipt, platform, userId, apiKey), given the
\* provider's answer to the call it makes
validateReceiptWithRevenueCat(receipt, platform, userId, answer) ==
    IF ProviderRequestBody(receipt, platform, userId) = {}
    THEN Failure(UnsupportedPlatform(platform))
    ELSE IF answer.outcome = "reject"
    THEN Failure("Validation error: fetch failed")
    ELSE IF answer.status # 200
    THEN Failure(ValidationFailed(answer.status))
    ELSE IF answer.product_a
    THEN IF answer.subscriptions = "missing"
         THEN Failure("Validation error: Cannot convert undefined or null to object")
         ELSE [success |-> TRUE,
               expires_at |-> answer.expires_date,
               entitlement_id |-> "product_a",
               original_transaction_id |->
                   IF answer.subscriptions = "one"
                   THEN answer.original_transaction_id ELSE UNDEFINED,
               error |-> UNDEFINED]
    ELSE Failure("No valid entitlement found")

\* JSON.stringify drops the keys whose value is undefined; optional names
\* the keys that can be
Stringify(obj, optional) ==
    [k \in {x \in DOMAIN obj : ~(x \in optional /\ obj[x] = UNDEFINED)} |-> obj[k]]

\* variant: the expiry written is the time of the write
PurchasePayloadExpiringNow(userId, productId, platform, validationResult, clock) ==
    [profile_id |-> userId,
     permission_id |-> "product_a",
     active |-> TRUE,
     expires_at |-> toISOString(clock),
     product_id |-> productId,
     platform |-> platform,
     revenuecat_user_id |-> userId,
     metadata |-> [purchase_date |-> toISOString(clock),
                   store |-> IF platform = "ios" THEN "app_store" ELSE "play_store",
                   verification_timestamp |-> toISOString(clock)]]

PurchasePayload(userId, productId, platform, validationResult, clock) ==
    Stringify(
    [profile_id |-> userId,
     permission_id |-> "product_a",
     active |-> TRUE,
     expires_at |-> validationResult.expires_at,
     product_id |-> productId,
     platform |-> platform,
     revenuecat_user_id |-> userId,
     metadata |-> Stringify(
                  [transaction_id |-> validationResult.original_transaction_id,
                   purchase_date |-> toISOString(clock),
                   store |-> IF platform = "ios" THEN "app_store" ELSE "play_store",
                   verification_timestamp |-> toISOString(clock)],
                  {"transaction_id"})],
    {"expires_at"})

PurchaseError == Response(500, [success |-> FALSE,
                                error |-> "Server error processing purchase"])
MissingParameters == Response(400, [success |-> FALSE,
                                    error |-> "Missing required parameters"])
UpsertFailed == Response(500, [success |-> FALSE,
                               error |-> "Failed to update permission record"])
ExistingFound(expires_at) ==
    Response(200, [success |-> TRUE, expires_at |-> expires_at,
                   message |-> "Existing subscription found"])
PurchaseOk(expires_at) ==
    Response(200, Stringify([success |-> TRUE, expires_at |-> expires_at],
                            {"expires_at"}))

\* variant: the expiry comparison reversed
IsDuplicateReversed(row, productId, clock) ==
    DateParse(row.expires_at) < clock /\ row.product_id = productId

\* the duplicate guard: expiryDate > now && product_id === productId
IsDuplicate(row, productId, clock) ==
    DateParse(row.expires_at) > clock /\ row.product_id = productId

\* variant: the productId is not among the fields tested
MissingFieldButProduct(payload) ==
    payload.receipt = "" \/ payload.platform = "" \/ payload.userId = ""

\* !receipt || !platform || !userId || !productId
MissingField(payload) ==
    \/ payload.receipt = ""
    \/ payload.platform = ""
    \/ payload.userId = ""
    \/ payload.productId = ""

\* variant: an error of the duplicate-check read ends the request
ServePurchaseReadFatal(req, dbError, t, clock) ==
    LET p == [Idle EXCEPT !.kind = "purchase"]
    IN
    IF req.method = "OPTIONS" THEN Step(Returned(p, NoEffects, Preflight), t)
    ELSE IF req.method # "POST"
    THEN Step(Returned(p, NoEffects, MethodNotAllowed), t)
    ELSE IF ~req.wellformed
    THEN Step(Returned(p, NoEffects, PurchaseError), t)
    ELSE
    LET i == [p EXCEPT !.userId = req.userId, !.productId = req.productId,
                       !.platform = req.platform, !.receipt = req.receipt]
        parsed == [NoEffects EXCEPT !.parsed = TRUE]
    IN
    IF MissingField(req)
    THEN Step(Returned(i, parsed, MissingParameters), t)
    ELSE
    LET rows == SelectActive(t, req.userId, "product_a")
        permissionError == dbError \/ MaybeSingleError(rows)
        fx == Read(parsed)
    IN
    IF permissionError THEN Step(Returned(i, fx, PurchaseError), t)
    ELSE IF rows # {}
         /\ IsDuplicate(CHOOSE r \in rows : TRUE, req.productId, clock)
    THEN Step(Returned(i, fx, ExistingFound((CHOOSE r \in rows : TRUE).expires_at)), t)
    ELSE Step([i EXCEPT !.pc = "validate", !.fx = fx,
                        !.permissionError = permissionError], t)

\* purchase serve(): from the arrival of the request to the duplicate-check read
ServePurchase(req, dbError, t, clock) ==
    LET p == [Idle EXCEPT !.kind = "purchase"]
    IN
    IF req.method = "OPTIONS" THEN Step(Returned(p, NoEffects, Preflight), t)
    ELSE IF req.method # "POST"
    THEN Step(Returned(p, NoEffects, MethodNotAllowed), t)
    ELSE IF ~req.wellformed
    THEN Step(Returned(p, NoEffects, PurchaseError), t)
    ELSE
    LET i == [p EXCEPT !.userId = req.userId, !.productId = req.productId,
                       !.platform = req.platform, !.receipt = req.receipt]
        parsed == [NoEffects EXCEPT !.parsed = TRUE]
    IN
    IF MissingField(req)
    THEN Step(Returned(i, parsed, MissingParameters), t)
    ELSE
    LET rows == SelectActive(t, req.userId, "product_a")
        permissionError == dbError \/ MaybeSingleError(rows)
        fx == Read(parsed)
    IN
    IF ~permissionError /\ rows # {}
         /\ IsDuplicate(CHOOSE r \in rows : TRUE, req.productId, clock)
    THEN Step(Returned(i, fx, ExistingFound((CHOOSE r \in rows : TRUE).expires_at)), t)
    ELSE Step([i EXCEPT !.pc = "validate", !.fx = fx,
                        !.permissionError = permissionError], t)

\* variant: the result of the validation is not tested
PurchaseValidateUnchecked(i, answer, t) ==
    LET validationResult ==
            validateReceiptWithRevenueCat(i.receipt, i.platform, i.userId, answer)
        fx == [i.fx EXCEPT !.handler = "validateReceiptWithRevenueCat",
                           !.provider = ProviderRequestBody(i.receipt, i.platform,
                                                            i.userId)]
    IN Step([i EXCEPT !.pc = "upsert", !.fx = fx,
                      !.validation = validationResult], t)

\* variant: a failed validation is answered with a fixed message
PurchaseValidateGenericError(i, answer, t) ==
    LET validationResult ==
            validateReceiptWithRevenueCat(i.receipt, i.platform, i.userId, answer)
        fx == [i.fx EXCEPT !.handler = "validateReceiptWithRevenueCat",
                           !.provider = ProviderRequestBody(i.receipt, i.platform,
                                                            i.userId)]
    IN
    IF ~validationResult.success
    THEN Step(Returned(i, fx, Response(400, [success |-> FALSE,
                                             error |-> "Validation failed"])), t)
    ELSE Step([i EXCEPT !.pc = "upsert", !.fx = fx,
                        !.validation = validationResult], t)

\* the awaited validateReceiptWithRevenueCat call and the test of its result
PurchaseValidate(i, answer, t) ==
    LET validationResult ==
            validateReceiptWithRevenueCat(i.receipt, i.platform, i.userId, answer)
        fx == [i.fx EXCEPT !.handler = "validateReceiptWithRevenueCat",
                           !.provider = ProviderRequestBody(i.receipt, i.platform,
                                                            i.userId)]
    IN
    IF ~validationResult.success
    THEN Step(Returned(i, fx, Response(400, Stringify(validationResult,
                                 {"expires_at", "entitlement_id",
                                  "original_transaction_id", "error"}))), t)
    ELSE Step([i EXCEPT !.pc = "upsert", !.fx = fx,
                        !.validation = validationResult], t)

\* the awaited upsert of the validated purchase and the response
PurchaseUpsert(i, dbError, t, clock) ==
    IF dbError
    THEN Step(Returned(i, Wrote(i.fx), UpsertFailed), t)
    ELSE Step(Returned(i, Wrote(i.fx), PurchaseOk(i.validation.expires_at)),
              Upsert(t, PurchasePayload(i.userId, i.productId, i.platform,
                                        i.validation, clock)))

(***************************************************************************)
(* The system: concurrent invocations over one table and one clock          *)
(***************************************************************************)
NoEvent == KeyedEvent("SUBSCRIBER_ALIAS", "u1", "product_a")
NoReplay == [count |-> 0, event |-> NoEvent, snapshot |-> {}, failed |-> 0]

\* the events the app can track: an event object is known by its identity
EventIds == 1..MaxEvents

\* AsyncStorage item EVENT_BUFFER_KEY: absent (getItem gives null) or the JSON
\* text of an array
NoItem == [present |-> FALSE, value |-> << >>]
Item(buffer) == [present |-> TRUE, value |-> buffer]

\* the locals of processEventBuffer: where it is, the position of the for...of
\* iterator, successfulEvents; and what it has done so far (the buffer when it
\* was called, the send attempts per event, the events whose send failed)
NoFlush ==
    [pc |-> "idle", index |-> 0, successfulEvents |-> {},
     atStart |-> << >>, attempts |-> [e \in EventIds |-> 0], failed |-> {}]

Init ==
    /\ table = {}
    /\ now = 0
    /\ inv = [s \in Slots |-> Idle]
    /\ started = 0
    /\ replay = NoReplay
    /\ userPermissions = {}
    /\ eventBuffer = << >>
    /\ storedBuffer = NoItem
    /\ isInitialized = FALSE
    /\ tracked = 0
    /\ flush = NoFlush

Free(s) == inv[s].pc = "idle"

\* a handler that has returned is gone before anything else happens: its
\* response is on the wire and nothing it holds can affect another invocation
Quiet == \A s \in Slots : inv[s].pc # "done"

\* a new invocation takes the first slot that is not running a handler
CanStart(s) ==
    /\ Quiet
    /\ started < MaxRequests
    /\ Free(s)
    /\ \A r \in Slots : r < s => ~Free(r)

Apply(s, step) ==
    /\ inv' = [inv EXCEPT ![s] = step.inv]
    /\ table' = step.table

Tick ==
    /\ Quiet
    /\ now < MaxTime
    /\ now' = now + 1
    /\ UNCHANGED <<analytics, userPermissions, table, inv, started, replay>>

WebhookArrives(s) ==
    /\ CanStart(s)
    /\ \E req \in WebhookRequests, dbError \in BOOLEAN :
          Apply(s, ServeWebhook(req, dbError, table, now))
    /\ started' = started + 1
    /\ UNCHANGED <<analytics, userPermissions, now, replay>>

\* the invocation ends with its response
Responds(s) ==
    /\ inv[s].pc = "done"
    /\ inv' = [inv EXCEPT ![s] = Idle]
    /\ UNCHANGED <<analytics, userPermissions, table, now, started, replay>>

WebhookWrites(s) ==
    /\ Quiet
    /\ inv[s].kind = "webhook"
    /\ inv[s].pc = "upsert"
    /\ \E dbError \in BOOLEAN :
          Apply(s, HandlerUpsert(inv[s], dbError, table, now))
    /\ UNCHANGED <<analytics, userPermissions, now, started, replay>>

PurchaseArrives(s) ==
    /\ CanStart(s)
    /\ \E req \in PurchaseRequests, dbError \in BOOLEAN :
          Apply(s, ServePurchase(req, dbError, table, now))
    /\ started' = started + 1
    /\ UNCHANGED <<analytics, userPermissions, now, replay>>

PurchaseValidates(s) ==
    /\ Quiet
    /\ inv[s].kind = "purchase"
    /\ inv[s].pc = "validate"
    /\ \E answer \in ProviderAnswers :
          Apply(s, PurchaseValidate(inv[s], answer, table))
    /\ UNCHANGED <<analytics, userPermissions, now, started, replay>>

PurchaseWrites(s) ==
    /\ Quiet
    /\ inv[s].kind = "purchase"
    /\ inv[s].pc = "upsert"
    /\ \E dbError \in BOOLEAN :
          Apply(s, PurchaseUpsert(inv[s], dbError, table, now))
    /\ UNCHANGED <<analytics, userPermissions, now, started, replay>>

Next ==
    \/ Tick
    \/ \E s \in Slots : WebhookArrives(s)
    \/ \E s \in Slots : WebhookWrites(s)
    \/ \E s \in Slots : PurchaseArrives(s)
    \/ \E s \in Slots : PurchaseValidates(s)
    \/ \E s \in Slots : PurchaseWrites(s)
    \/ \E s \in Slots : Responds(s)

Spec == Init /\ [][Next]_vars

TypeOK ==
    /\ now \in Times
    /\ started \in 0..MaxRequests
    /\ \A s \in Slots : inv[s].pc \in {"idle", "validate", "upsert", "done"}
    /\ \A r \in table : DOMAIN r = Columns
    /\ \A r \in userPermissions : DOMAIN r = Columns

(***************************************************************************)
(* Sequential runs: one invocation from arrival to response with no other   *)
(* invocation in between, and the redelivery of one event by the provider.  *)
(***************************************************************************)
RunWebhook(req, readError, writeError, t, clock) ==
    LET first == ServeWebhook(req, readError, t, clock)
    IN IF first.inv.pc = "upsert"
       THEN HandlerUpsert(first.inv, writeError, first.table, clock)
       ELSE first

RunPurchase(req, readError, answer, writeError, t, clock) ==
    LET first == ServePurchase(req, readError, t, clock)
        second == IF first.inv.pc = "validate"
                  THEN PurchaseValidate(first.inv, answer, first.table)
                  ELSE first
    IN IF second.inv.pc = "upsert"
       THEN PurchaseUpsert(second.inv, writeError, second.table, clock)
       ELSE second

\* some request is served before the replayed event is first delivered
SequentialWebhook ==
    /\ Free(1)
    /\ replay.count = 0
    /\ started < MaxPrepare
    /\ \E req \in WebhookRequests, readError \in BOOLEAN, writeError \in BOOLEAN :
          Apply(1, RunWebhook(req, readError, writeError, table, now))
    /\ started' = started + 1
    /\ UNCHANGED <<analytics, userPermissions, now, replay>>

SequentialPurchase ==
    /\ Free(1)
    /\ replay.count = 0
    /\ started < MaxPrepare
    /\ \E req \in PurchaseRequests, readError \in BOOLEAN, writeError \in BOOLEAN,
          answer \in ProviderAnswers :
          Apply(1, RunPurchase(req, readError, answer, writeError, table, now))
    /\ started' = started + 1
    /\ UNCHANGED <<analytics, userPermissions, now, replay>>

\* the provider delivers the replayed event; a delivery counts once it is
\* answered "processed", and the table after the first one is remembered
Deliver ==
    /\ Free(1)
    /\ replay.count < MaxReplays
    /\ \E e \in IF replay.count = 0 THEN ProductionEvents ELSE {replay.event},
          readError \in BOOLEAN, writeError \in BOOLEAN :
          LET run == RunWebhook(Signed(RawBody(e, 0)), readError, writeError,
                                table, now)
          IN /\ Apply(1, run)
             /\ replay' =
                  IF run.inv.resp = Processed(e.type)
                  THEN [replay EXCEPT !.count = replay.count + 1, !.event = e,
                                      !.snapshot = IF replay.count = 0 THEN run.table
                                                   ELSE replay.snapshot]
                  ELSE replay
    /\ UNCHANGED <<analytics, userPermissions, now, started>>

NextReplay ==
    \/ Tick
    \/ SequentialWebhook
    \/ SequentialPurchase
    \/ Deliver
    \/ Responds(1)

SpecReplay == Init /\ [][NextReplay]_vars

(***************************************************************************)
(* The provider's retry policy: an event answered 500 is delivered again    *)
(* until it is answered 200.  replay.event is the event the provider holds, *)
(* replay.failed the 500 answers it has heard for it (MaxReplays stands for *)
(* that many or more), replay.count = 1 once it has heard the 200.          *)
(***************************************************************************)
Pending == replay.event # NoEvent /\ replay.count = 0

\* some request is served before the provider has an event to send
Prepares ==
    /\ replay.event = NoEvent
    /\ SequentialWebhook

\* an event of a handled kind occurs at the provider
ProviderSends ==
    /\ Free(1)
    /\ replay.event = NoEvent
    /\ \E e \in {x \in ProductionEvents : x.type \in ActivationTypes \cup ReadFirstTypes} :
          replay' = [replay EXCEPT !.event = e]
    /\ UNCHANGED <<analytics, userPermissions, table, now, inv, started>>

\* the provider posts the event it holds; the first datastore call of the
\* handler fails (dbError) or not
ProviderDelivers(dbError) ==
    /\ Free(1)
    /\ Pending
    /\ Apply(1, ServeWebhook(Signed(RawBody(replay.event, 0)), dbError, table, now))
    /\ UNCHANGED <<analytics, userPermissions, now, started, replay>>

\* the upsert of a handler that read first fails (dbError) or not
RetryWrites(dbError) ==
    /\ inv[1].kind = "webhook"
    /\ inv[1].pc = "upsert"
    /\ Apply(1, HandlerUpsert(inv[1], dbError, table, now))
    /\ UNCHANGED <<analytics, userPermissions, now, started, replay>>

\* the response reaches the provider: a 200 ends the deliveries of the event,
\* anything else is one more failure heard
ProviderHears ==
    /\ inv[1].pc = "done"
    /\ inv' = [inv EXCEPT ![1] = Idle]
    /\ replay' =
         IF ~Pending THEN replay
         ELSE IF inv[1].resp.status = 200 THEN [replay EXCEPT !.count = 1]
         ELSE [replay EXCEPT !.failed = IF replay.failed < MaxReplays
                                        THEN replay.failed + 1
                                        ELSE replay.failed]
    /\ UNCHANGED <<analytics, userPermissions, table, now, started>>

NextRetry ==
    \/ Tick
    \/ Prepares
    \/ ProviderSends
    \/ ProviderDelivers(TRUE)
    \/ ProviderDelivers(FALSE)
    \/ RetryWrites(TRUE)
    \/ RetryWrites(FALSE)
    \/ ProviderHears

\* every response is sent; the provider delivers again after a 500 and the
\* datastore does not fail forever: a delivery whose read (or single write)
\* succeeds, and an upsert that succeeds, happen if they can happen again and
\* again
FairRetry ==
    /\ WF_vars(ProviderHears)
    /\ SF_vars(ProviderDelivers(FALSE))
    /\ SF_vars(RetryWrites(FALSE))

SpecRetry == Init /\ [][NextRetry]_vars /\ FairRetry

(***************************************************************************)
(* The app (src/context/AuthContext.js): the permissions of the signed-in   *)
(* user are loaded into userPermissions and read from there.                *)
(***************************************************************************)
\* loadUserPermissions(userId): the state it sets; nothing without a userId,
\* the empty list on a query error, else the user's rows with active = true
LoadedPermissions(userId, dbError, t, current) ==
    IF userId = "" THEN current
    ELSE IF dbError THEN {}
    ELSE {r \in t : r.profile_id = userId /\ r.active = TRUE}

\* variant: a permission past its expiry is not granted
hasPermissionUnexpired(permissions, productId) ==
    \E permission \in permissions :
        /\ permission.permission_id = productId
        /\ permission.active = TRUE
        /\ \/ permission.expires_at = NULL
           \/ DateParse(permission.expires_at) > now

\* hasPermission(productId), over the userPermissions it closes over
hasPermission(permissions, productId) ==
    \E permission \in permissions :
        permission.permission_id = productId /\ permission.active = TRUE

LoadUserPermissions ==
    /\ Quiet
    /\ \E userId \in Users \cup {""}, dbError \in BOOLEAN :
          userPermissions' = LoadedPermissions(userId, dbError, table,
                                               userPermissions)
    /\ UNCHANGED <<analytics, table, now, inv, started, replay>>

\* logout or session expiry: setUserPermissions([])
SignOut ==
    /\ Quiet
    /\ userPermissions # {}
    /\ userPermissions' = {}
    /\ UNCHANGED <<analytics, table, now, inv, started, replay>>

\* the app next to the server, whose requests are served one after another
NextClient ==
    \/ Tick
    \/ SequentialWebhook
    \/ SequentialPurchase
    \/ Deliver
    \/ Responds(1)
    \/ LoadUserPermissions
    \/ SignOut

SpecClient == Init /\ [][NextClient]_vars

(***************************************************************************)
(* The analytics service (src/services/analytics.js): events are sent to    *)
(* the track-analytics function, or kept in eventBuffer (and in             *)
(* AsyncStorage) to be sent by processEventBuffer after initAnalytics.      *)
(***************************************************************************)
\* AsyncStorage.setItem(EVENT_BUFFER_KEY, JSON.stringify(buffer)), which can
\* reject
setItem(stored, buffer, storageError) ==
    IF storageError THEN stored ELSE Item(buffer)

\* bufferEvent's eventBuffer.push(eventData)
Push(buffer, e) == Append(buffer, e)

\* restoreEventBuffer: the stored array when there is one
Restored(stored, buffer) == IF stored.present THEN stored.value ELSE buffer

\* eventBuffer.filter(event => !successfulEvents.includes(event))
Filter(buffer, successfulEvents) ==
    SelectSeq(buffer, LAMBDA e : e \notin successfulEvents)

\* nothing else runs between the return of processEventBuffer and the reading
\* of what it has done
Settled == flush.pc # "done"

\* trackEvent(eventName): a new event object; buffered when the service is not
\* initialized or the device is offline, else sent, and buffered by sendEvent
\* when the send fails
TrackEvent ==
    /\ Settled
    /\ tracked < MaxEvents
    /\ tracked' = tracked + 1
    /\ \E connected \in BOOLEAN, sent \in BOOLEAN, storageError \in BOOLEAN :
          IF isInitialized /\ connected /\ sent
          THEN UNCHANGED <<eventBuffer, storedBuffer>>
          ELSE /\ Len(eventBuffer) < MaxBuffer
               /\ eventBuffer' = Push(eventBuffer, tracked + 1)
               /\ storedBuffer' = setItem(storedBuffer, eventBuffer', storageError)
    /\ UNCHANGED <<server, isInitialized, flush>>

\* initAnalytics(userId) with a user id, up to the first await of the
\* processEventBuffer it starts; not called again while a flush runs
InitAnalytics ==
    /\ flush.pc = "idle"
    /\ isInitialized' = TRUE
    /\ eventBuffer' = Restored(storedBuffer, eventBuffer)
    /\ flush' = IF Len(eventBuffer') = 0 THEN NoFlush
                ELSE [NoFlush EXCEPT !.pc = "netinfo", !.atStart = eventBuffer']
    /\ UNCHANGED <<server, storedBuffer, tracked>>

\* await NetInfo.fetch(): offline returns, online enters the loop
FlushChecksNetwork ==
    /\ flush.pc = "netinfo"
    /\ \E connected \in BOOLEAN :
          flush' = IF connected THEN [flush EXCEPT !.pc = "loop", !.index = 1]
                   ELSE [flush EXCEPT !.pc = "done"]
    /\ UNCHANGED <<server, eventBuffer, storedBuffer, isInitialized, tracked>>

\* one turn of `for (const event of eventBuffer)`: the iterator reads the
\* array as it is now; sendEvent returns true, or pushes the event on
\* eventBuffer (bufferEvent) and returns false
FlushSends ==
    /\ flush.pc = "loop"
    /\ flush.index <= Len(eventBuffer)
    /\ LET event == eventBuffer[flush.index]
           tried == [flush EXCEPT !.index = flush.index + 1,
                                  !.attempts[event] = flush.attempts[event] + 1]
       IN \E success \in BOOLEAN, storageError \in BOOLEAN :
             IF success
             THEN /\ flush' = [tried EXCEPT !.successfulEvents =
                                               flush.successfulEvents \cup {event}]
                  /\ UNCHANGED <<eventBuffer, storedBuffer>>
             ELSE /\ Len(eventBuffer) < MaxBuffer
                  /\ flush' = [tried EXCEPT !.failed = flush.failed \cup {event}]
                  /\ eventBuffer' = Push(eventBuffer, event)
                  /\ storedBuffer' = setItem(storedBuffer, eventBuffer', storageError)
    /\ UNCHANGED <<server, isInitialized, tracked>>

\* the iterator is past the end: the successful events are filtered out and
\* the buffer is stored again
FlushFinishes ==
    /\ flush.pc = "loop"
    /\ flush.index > Len(eventBuffer)
    /\ flush' = [flush EXCEPT !.pc = "done"]
    /\ IF flush.successfulEvents # {}
       THEN /\ eventBuffer' = Filter(eventBuffer, flush.successfulEvents)
            /\ \E storageError \in BOOLEAN :
                  storedBuffer' = setItem(storedBuffer, eventBuffer', storageError)
       ELSE UNCHANGED <<eventBuffer, storedBuffer>>
    /\ UNCHANGED <<server, isInitialized, tracked>>

\* processEventBuffer has returned
FlushReturns ==
    /\ flush.pc = "done"
    /\ flush' = NoFlush
    /\ UNCHANGED <<server, eventBuffer, storedBuffer, isInitialized, tracked>>

\* the app is started again: the module state is new, the storage is kept
Restart ==
    /\ flush.pc = "idle"
    /\ isInitialized
    /\ eventBuffer' = << >>
    /\ isInitialized' = FALSE
    /\ UNCHANGED <<server, storedBuffer, tracked, flush>>

NextAnalytics ==
    \/ TrackEvent
    \/ InitAnalytics
    \/ FlushChecksNetwork
    \/ FlushSends
    \/ FlushFinishes
    \/ FlushReturns
    \/ Restart

SpecAnalytics == Init /\ [][NextAnalytics]_vars

(***************************************************************************)
(* Reading the table and the invocations                                    *)
(***************************************************************************)
\* metadata keys that hold the wall clock of the write
WallClockKeys == {"updated_at", "cancelled_at", "expired_at",
                  "billing_issue_detected_at", "purchase_date",
                  "verification_timestamp"}

StripClock(row) ==
    [row EXCEPT !.metadata =
        [k \in (DOMAIN row.metadata) \ WallClockKeys |-> row.metadata[k]]]

StripClocks(t) == {StripClock(r) : r \in t}

\* the one row of a non-empty read
TheRow(rows) == CHOOSE r \in rows : TRUE

Has(obj, key, value) == key \in DOMAIN obj /\ obj[key] = value

(***************************************************************************)
(* C1: redelivering the same production INITIAL_PURCHASE event leaves the   *)
(* table as the first delivery left it, wall-clock metadata aside, and the  *)
(* key of the event still has exactly one row.                              *)
(***************************************************************************)
C1_IdempotentReplay ==
    (replay.count >= 2 /\ replay.event.type = "INITIAL_PURCHASE") =>
        /\ StripClocks(table) = StripClocks(replay.snapshot)
        /\ Cardinality(table) = Cardinality(replay.snapshot)
        /\ Cardinality(SelectKey(table, replay.event.original_app_user_id,
                                 replay.event.entitlement_id)) = 1

\* the second delivery was processed at a later time than the first and wrote
C1_Witness ==
    /\ replay.count = 2
    /\ replay.event.type = "INITIAL_PURCHASE"
    /\ table # replay.snapshot
    /\ started = 1

(***************************************************************************)
(* C2: a webhook POST without a signature header, or with one that is not   *)
(* the hex HMAC-SHA256 of the raw body, is answered 401 in every state,     *)
(* having issued no datastore call, parsed nothing and dispatched nothing.  *)
(***************************************************************************)
WronglySigned ==
    {req \in WebhookRequests :
        /\ req.method = "POST"
        /\ \/ ~req.signature.present
           \/ req.signature.value # HmacSha256Hex(WEBHOOK_SECRET, req.body)}

C2_SignatureRejection ==
    /\ \A req \in WronglySigned, dbError \in BOOLEAN :
          LET out == ServeWebhook(req, dbError, table, now)
          IN /\ out.inv.pc = "done"
             /\ out.inv.resp.status = 401
             /\ out.inv.fx = NoEffects
             /\ out.table = table
    /\ \A s \in Slots :
          (inv[s].kind = "webhook" /\ inv[s].resp.status = 401) =>
              /\ inv[s].fx.reads = 0 /\ inv[s].fx.writes = 0
              /\ ~inv[s].fx.parsed /\ inv[s].fx.handler = "none"

\* a wrongly signed request was answered while the table held a row
C2_Witness ==
    /\ \E s \in Slots : inv[s].kind = "webhook" /\ inv[s].resp = Unauthorized
    /\ table # {}

(***************************************************************************)
(* C3: in every state, a complete purchase request whose user has an active *)
(* 'product_a' row with a future expiry and the request's productId, and    *)
(* whose lookup succeeds, is answered 200 success with that row's           *)
(* expires_at, with no provider call and no write.                          *)
(***************************************************************************)
DuplicateOf(req) ==
    {r \in table :
        /\ r.profile_id = req.userId
        /\ r.permission_id = "product_a"
        /\ r.active = TRUE
        /\ r.expires_at # NULL
        /\ DateParse(r.expires_at) > now
        /\ r.product_id = req.productId}

C3_DuplicateSuppression ==
    \A req \in CompleteRequests :
        \A r \in DuplicateOf(req) :
            LET out == ServePurchase(req, FALSE, table, now)
            IN /\ out.inv.pc = "done"
               /\ out.inv.resp.status = 200
               /\ out.inv.resp.body.success = TRUE
               /\ out.inv.resp.body.expires_at = r.expires_at
               /\ out.inv.fx.provider = {}
               /\ out.inv.fx.handler = "none"
               /\ out.inv.fx.writes = 0
               /\ out.table = table

\* a purchase request was short-circuited on an existing row
C3_Witness ==
    \E s \in Slots :
        /\ inv[s].kind = "purchase"
        /\ inv[s].pc = "done"
        /\ Has(inv[s].resp.body, "message", "Existing subscription found")
        /\ \E r \in table : inv[s].resp.body.expires_at = r.expires_at

\* slot s holds a webhook invocation of this type that has just returned:
\* the table is as its last datastore call left it
JustReturned(s, type) ==
    /\ inv[s].kind = "webhook"
    /\ inv[s].type = type
    /\ inv[s].pc = "done"

(***************************************************************************)
(* C4: when a production CANCELLATION returns "processed", the row of its   *)
(* key is active with metadata.status 'cancelled'; the payload the          *)
(* cancellation handler upserts never has active = false.                   *)
(***************************************************************************)
C4_CancellationKeepsAccess ==
    \A s \in Slots :
        /\ (inv[s].kind = "webhook" /\ inv[s].type = "CANCELLATION"
              /\ inv[s].pc = "upsert") =>
                 HandlerPayload(inv[s], now).active = TRUE
        /\ (JustReturned(s, "CANCELLATION")
              /\ inv[s].resp = Processed("CANCELLATION")) =>
                 LET rows == SelectKey(table, inv[s].userId, inv[s].entitlementId)
                 IN /\ rows # {}
                    /\ \A r \in rows :
                          r.active = TRUE /\ Has(r.metadata, "status", "cancelled")

\* a cancellation was processed for a key whose row had been deactivated
C4_Witness ==
    \E s \in Slots :
        /\ JustReturned(s, "CANCELLATION")
        /\ inv[s].resp = Processed("CANCELLATION")
        /\ \E r \in inv[s].existing : r.active = FALSE
        /\ \E r \in SelectKey(table, inv[s].userId, inv[s].entitlementId) :
              r.active = TRUE

(***************************************************************************)
(* C5: when an EXPIRATION that read an existing row with expires_at = T     *)
(* returns "processed", the row is inactive, its expires_at is T (the value *)
(* of the row read, not the time of processing) and metadata.status is      *)
(* 'expired'.                                                               *)
(***************************************************************************)
C5_ExpirationKeepsExpiry ==
    \A s \in Slots :
        (/\ JustReturned(s, "EXPIRATION")
         /\ inv[s].existing # {}
         /\ inv[s].resp = Processed("EXPIRATION")) =>
            LET rows == SelectKey(table, inv[s].userId, inv[s].entitlementId)
            IN /\ Cardinality(rows) = 1
               /\ \A r \in rows :
                     /\ r.active = FALSE
                     /\ r.expires_at = TheRow(inv[s].existing).expires_at
                     /\ Has(r.metadata, "status", "expired")

\* an active row with a real expiry was expired at a time other than that expiry
C5_Witness ==
    \E s \in Slots :
        /\ JustReturned(s, "EXPIRATION")
        /\ inv[s].resp = Processed("EXPIRATION")
        /\ \E r \in inv[s].existing : r.active = TRUE /\ r.expires_at # NULL
        /\ \E r \in SelectKey(table, inv[s].userId, inv[s].entitlementId) :
              /\ r.active = FALSE
              /\ r.expires_at # NULL
              /\ r.metadata.expired_at # r.expires_at

(***************************************************************************)
(* C6: in every state, a production BILLING_ISSUE event for a key without a *)
(* row, whose lookup succeeds, is answered 200 "processed" having issued no *)
(* write, and the table is as before.                                       *)
(***************************************************************************)
BillingIssueEvents == {e \in ProductionEvents : e.type = "BILLING_ISSUE"}

C6_BillingIssueNoRecord ==
    \A e \in BillingIssueEvents :
        SelectKey(table, e.original_app_user_id, e.entitlement_id) = {} =>
            LET out == ServeWebhook(Signed(RawBody(e, 0)), FALSE, table, now)
            IN /\ out.inv.pc = "done"
               /\ out.inv.resp = Processed("BILLING_ISSUE")
               /\ out.inv.fx.writes = 0
               /\ out.table = table

\* a billing issue for a key without a row was processed; another key has a row
C6_Witness ==
    \E s \in Slots :
        /\ inv[s].kind = "webhook"
        /\ inv[s].resp = Processed("BILLING_ISSUE")
        /\ inv[s].fx.reads = 1
        /\ inv[s].fx.writes = 0
        /\ SelectKey(table, inv[s].userId, inv[s].entitlementId) = {}
        /\ table # {}

(***************************************************************************)
(* C7: in every state, a correctly signed event whose environment is not    *)
(* PRODUCTION is answered 200 "skipped" whatever its kind, with no          *)
(* datastore read or write.                                                 *)
(***************************************************************************)
NonProductionRequests ==
    {req \in WebhookRequests :
        /\ req.method = "POST"
        /\ req.body.wellformed
        /\ req.signature = Header(HmacSha256Hex(WEBHOOK_SECRET, req.body))
        /\ req.body.event.environment # "PRODUCTION"}

C7_NonProductionSkipped ==
    /\ {req.body.event.type : req \in NonProductionRequests} = EventType
    /\ \A req \in NonProductionRequests, dbError \in BOOLEAN :
          LET out == ServeWebhook(req, dbError, table, now)
          IN /\ out.inv.pc = "done"
             /\ out.inv.resp.status = 200
             /\ Has(out.inv.resp.body, "status", "skipped")
             /\ out.inv.fx.reads = 0
             /\ out.inv.fx.writes = 0
             /\ out.table = table
    /\ \A s \in Slots :
          (inv[s].kind = "webhook" /\ Has(inv[s].resp.body, "status", "skipped")) =>
              inv[s].fx.reads = 0 /\ inv[s].fx.writes = 0

\* a sandbox event of a kind that writes in production was skipped over a
\* table that holds the row of its key
C7_Witness ==
    \E s \in Slots :
        /\ inv[s].kind = "webhook"
        /\ inv[s].resp = Skipped
        /\ inv[s].type = "EXPIRATION"
        /\ \E r \in SelectKey(table, inv[s].userId, inv[s].entitlementId) : r.active

(***************************************************************************)
(* C8: an invocation that has called the receipt validator sent the         *)
(* provider, for platform 'ios', a body with the receipt in fetch_token and *)
(* no purchase_token; for 'android', the receipt in purchase_token and no   *)
(* fetch_token; for any other platform it sent nothing and was answered     *)
(* with the validator's failure.                                            *)
(***************************************************************************)
C8_PlatformBranching ==
    \A s \in Slots :
        (inv[s].kind = "purchase"
           /\ inv[s].fx.handler = "validateReceiptWithRevenueCat") =>
            CASE inv[s].platform = "ios" ->
                    /\ Cardinality(inv[s].fx.provider) = 1
                    /\ \A b \in inv[s].fx.provider :
                          /\ Has(b, "fetch_token", inv[s].receipt)
                          /\ "purchase_token" \notin DOMAIN b
              [] inv[s].platform = "android" ->
                    /\ Cardinality(inv[s].fx.provider) = 1
                    /\ \A b \in inv[s].fx.provider :
                          /\ Has(b, "purchase_token", inv[s].receipt)
                          /\ "fetch_token" \notin DOMAIN b
              [] OTHER ->
                    /\ inv[s].fx.provider = {}
                    /\ inv[s].pc = "done"
                    /\ inv[s].resp.status = 400
                    /\ inv[s].resp.body.success = FALSE
                    /\ inv[s].fx.writes = 0

\* an Android purchase was validated and written while an iOS one is in flight
C8_Witness ==
    \E s, r \in Slots :
        /\ inv[s].kind = "purchase" /\ inv[s].platform = "android"
        /\ inv[s].pc = "done" /\ inv[s].resp.status = 200
        /\ inv[s].fx.provider # {}
        /\ inv[r].kind = "purchase" /\ inv[r].platform = "ios"
        /\ inv[r].fx.provider # {}

(***************************************************************************)
(* C9: a purchase invocation calls the provider only after its              *)
(* duplicate-check read, and is at its upsert, or has issued it, only with  *)
(* a validation of its own that returned success.                           *)
(***************************************************************************)
C9_PurchaseOrdering ==
    \A s \in Slots :
        inv[s].kind = "purchase" =>
            /\ inv[s].fx.handler = "validateReceiptWithRevenueCat" =>
                  inv[s].fx.reads = 1
            /\ (inv[s].pc = "upsert" \/ inv[s].fx.writes > 0) =>
                  /\ inv[s].fx.reads = 1
                  /\ inv[s].fx.handler = "validateReceiptWithRevenueCat"
                  /\ inv[s].fx.provider # {}
                  /\ inv[s].validation.success = TRUE
            /\ (inv[s].pc = "done" /\ inv[s].fx.writes = 0) =>
                  \/ inv[s].resp.status # 200
                  \/ Has(inv[s].resp.body, "message", "Existing subscription found")

\* a purchase read, validated and wrote a row
C9_Witness ==
    \E s \in Slots :
        /\ inv[s].kind = "purchase"
        /\ inv[s].pc = "done"
        /\ inv[s].fx.reads = 1 /\ inv[s].fx.writes = 1
        /\ inv[s].resp.status = 200
        /\ \E r \in table : r.profile_id = inv[s].userId /\ r.platform = inv[s].platform

(***************************************************************************)
(* C10: every row with active = true has a non-null expires_at.             *)
(***************************************************************************)
C10_ActiveHasExpiry ==
    \A r \in table : r.active = TRUE => r.expires_at # NULL

(***************************************************************************)
(* C11: whenever the receipt validator returns a failure to a purchase      *)
(* invocation (unsupported platform, non-2xx provider status, no            *)
(* 'product_a' entitlement, or an exception inside the validator), the      *)
(* invocation returns 400 with success = false and the validator's error,   *)
(* issues no write, and the table is as before.                             *)
(***************************************************************************)
ValidatorErrors ==
    {validateReceiptWithRevenueCat("rcpt_1", pf, "u1", answer).error :
        pf \in Platforms, answer \in ProviderAnswers}

C11_ValidationFailure ==
    /\ {"Unsupported platform: web", "RevenueCat validation failed: 500",
        "No valid entitlement found", "Validation error: fetch failed"}
          \subseteq ValidatorErrors
    /\ \A s \in Slots :
          (inv[s].kind = "purchase" /\ inv[s].pc = "validate") =>
              \A answer \in ProviderAnswers :
                  LET result == validateReceiptWithRevenueCat(
                                    inv[s].receipt, inv[s].platform,
                                    inv[s].userId, answer)
                      out == PurchaseValidate(inv[s], answer, table)
                  IN ~result.success =>
                        /\ out.inv.pc = "done"
                        /\ out.inv.resp.status = 400
                        /\ out.inv.resp.body.success = FALSE
                        /\ result.error # UNDEFINED
                        /\ Has(out.inv.resp.body, "error", result.error)
                        /\ out.inv.fx.writes = 0
                        /\ out.table = table

\* a purchase was refused for lack of the entitlement while the user's row,
\* written before, is still in the table
C11_Witness ==
    \E s \in Slots :
        /\ inv[s].kind = "purchase"
        /\ inv[s].pc = "done"
        /\ inv[s].resp.status = 400
        /\ Has(inv[s].resp.body, "error", "No valid entitlement found")
        /\ inv[s].fx.writes = 0
        /\ SelectKey(table, inv[s].userId, "product_a") # {}

(***************************************************************************)
(* C12: a purchase invocation that passed the duplicate guard and whose     *)
(* validation succeeded, and whose upsert the datastore accepts, leaves     *)
(* exactly one row for (userId, 'product_a'), with active = true,           *)
(* expires_at the validator's expiry and product_id the request's           *)
(* productId; it changes no row of another key, and answers 200 success     *)
(* with that same expiry.                                                   *)
(***************************************************************************)
OtherKeys(t, userId, permissionId) == t \ SelectKey(t, userId, permissionId)

C12_PurchaseSuccessWrite ==
    \A s \in Slots :
        (inv[s].kind = "purchase" /\ inv[s].pc = "upsert") =>
            LET out == PurchaseUpsert(inv[s], FALSE, table, now)
                rows == SelectKey(out.table, inv[s].userId, "product_a")
            IN /\ inv[s].validation.success
               /\ Cardinality(rows) = 1
               /\ \A r \in rows :
                     /\ r.active = TRUE
                     /\ r.expires_at = inv[s].validation.expires_at
                     /\ r.product_id = inv[s].productId
               /\ OtherKeys(out.table, inv[s].userId, "product_a")
                     = OtherKeys(table, inv[s].userId, "product_a")
               /\ out.inv.pc = "done"
               /\ out.inv.resp.status = 200
               /\ out.inv.resp.body.success = TRUE
               /\ Has(out.inv.resp.body, "expires_at", inv[s].validation.expires_at)

\* a validated purchase wrote its user's row, and was answered with the expiry
\* written, while the table holds the row of another user
C12_Witness ==
    \E s \in Slots :
        /\ inv[s].kind = "purchase"
        /\ inv[s].pc = "done"
        /\ inv[s].fx.writes = 1
        /\ inv[s].resp.status = 200
        /\ inv[s].productId = "sku_year"
        /\ \E r \in SelectKey(table, inv[s].userId, "product_a") :
              /\ r.product_id = "sku_year"
              /\ r.expires_at = inv[s].validation.expires_at
              /\ r.expires_at = inv[s].resp.body.expires_at
        /\ \E r \in table : r.profile_id # inv[s].userId

(***************************************************************************)
(* C13: if the datastore call of a transition handler returns an error --   *)
(* the upsert of the activation handler, the read of the cancellation,      *)
(* expiration or billing-issue handler, or the upsert that follows that     *)
(* read -- the invocation returns 500, not 200 "processed".                 *)
(***************************************************************************)
HandledEvents ==
    {e \in ProductionEvents : e.type \in ActivationTypes \cup ReadFirstTypes}

C13_DatastoreErrorsPropagate ==
    /\ \A e \in HandledEvents :
          LET out == ServeWebhook(Signed(RawBody(e, 0)), TRUE, table, now)
          IN /\ out.inv.pc = "done"
             /\ out.inv.resp.status = 500
             /\ out.inv.resp # Processed(e.type)
    /\ \A s \in Slots :
          (inv[s].kind = "webhook" /\ inv[s].pc = "upsert") =>
              LET out == HandlerUpsert(inv[s], TRUE, table, now)
              IN /\ out.inv.pc = "done"
                 /\ out.inv.resp.status = 500
                 /\ out.inv.resp # Processed(inv[s].type)

\* the upsert of a handler that had read its row failed, and it returned 500
C13_Witness ==
    \E s \in Slots :
        /\ inv[s].kind = "webhook"
        /\ inv[s].type \in ReadFirstTypes
        /\ inv[s].pc = "done"
        /\ inv[s].existing # {}
        /\ inv[s].fx.reads = 1 /\ inv[s].fx.writes = 1
        /\ inv[s].resp = WebhookError

(***************************************************************************)
(* C14: in every state, a CANCELLATION, EXPIRATION or BILLING_ISSUE event   *)
(* whose read of the prior row fails returns having issued no upsert, and   *)
(* the table is as before.                                                  *)
(***************************************************************************)
ReadFirstEvents == {e \in ProductionEvents : e.type \in ReadFirstTypes}

C14_NoWriteAfterFailedRead ==
    /\ {e.type : e \in ReadFirstEvents}
          = {"CANCELLATION", "EXPIRATION", "BILLING_ISSUE"}
    /\ \A e \in ReadFirstEvents :
          LET out == ServeWebhook(Signed(RawBody(e, 0)), TRUE, table, now)
          IN /\ out.inv.pc = "done"
             /\ out.inv.fx.reads = 1
             /\ out.inv.fx.writes = 0
             /\ out.table = table

\* the read of a cancellation failed for a key that has a row: it returned
\* without an upsert
C14_Witness ==
    \E s \in Slots :
        /\ JustReturned(s, "CANCELLATION")
        /\ inv[s].fx.reads = 1 /\ inv[s].fx.writes = 0
        /\ inv[s].resp = WebhookError
        /\ \E r \in SelectKey(table, inv[s].userId, inv[s].entitlementId) :
              ~Has(r.metadata, "status", "cancelled")

(***************************************************************************)
(* C15: in every state, a correctly signed production event of a kind that  *)
(* no handler takes (SUBSCRIBER_ALIAS) is answered 200 "processed" with no  *)
(* datastore read and no write, and the table is as before.                 *)
(***************************************************************************)
UnhandledEvents ==
    {e \in ProductionEvents :
        e.type \notin {"INITIAL_PURCHASE", "RENEWAL", "CANCELLATION", "EXPIRATION",
                       "PRODUCT_CHANGE", "BILLING_ISSUE"}}

C15_UnhandledAcknowledged ==
    /\ UnhandledEvents # {}
    /\ \A e \in UnhandledEvents, dbError \in BOOLEAN :
          LET out == ServeWebhook(Signed(RawBody(e, 0)), dbError, table, now)
          IN /\ out.inv.pc = "done"
             /\ out.inv.resp = Processed(e.type)
             /\ out.inv.fx.reads = 0
             /\ out.inv.fx.writes = 0
             /\ out.inv.fx.handler = "none"
             /\ out.table = table

\* an alias event was acknowledged for a key that has a row
C15_Witness ==
    \E s \in Slots :
        /\ JustReturned(s, "SUBSCRIBER_ALIAS")
        /\ inv[s].resp = Processed("SUBSCRIBER_ALIAS")
        /\ inv[s].fx.reads = 0 /\ inv[s].fx.writes = 0
        /\ SelectKey(table, inv[s].userId, inv[s].entitlementId) # {}

(***************************************************************************)
(* C16: in every state, a production INITIAL_PURCHASE, RENEWAL or           *)
(* PRODUCT_CHANGE event whose upsert succeeds is answered "processed" and   *)
(* leaves, whatever row the key had, one row with active = true, expires_at *)
(* the expiry of the event (null when the event has none), product_id and   *)
(* platform those of the event, and metadata.status 'active'; the three     *)
(* kinds leave the same table.                                              *)
(***************************************************************************)
\* the expiry an event carries, as a stored timestamp
EventExpiry(e) ==
    IF e.expiration_at_ms = NULL_MS THEN NULL ELSE toISOString(e.expiration_at_ms)

C16_ActivationTransition ==
    \A e \in ActivationEvents :
        LET out == ServeWebhook(Signed(RawBody(e, 0)), FALSE, table, now)
            rows == SelectKey(out.table, e.original_app_user_id, e.entitlement_id)
        IN /\ out.inv.resp = Processed(e.type)
           /\ Cardinality(rows) = 1
           /\ \A r \in rows :
                 /\ r.active = TRUE
                 /\ r.expires_at = EventExpiry(e)
                 /\ r.product_id = e.product_id
                 /\ r.platform = toLowerCase(e.store)
                 /\ Has(r.metadata, "status", "active")
           /\ \A type \in ActivationTypes :
                 ServeWebhook(Signed(RawBody([e EXCEPT !.type = type], 0)),
                              FALSE, table, now).table = out.table

(***************************************************************************)
(* C17: when a BILLING_ISSUE that read an existing row returns "processed", *)
(* the key has one row, with active = true, expires_at that of the row      *)
(* read, and metadata.billing_issue = true.                                 *)
(***************************************************************************)
C17_BillingIssueTransition ==
    \A s \in Slots :
        (/\ JustReturned(s, "BILLING_ISSUE")
         /\ inv[s].existing # {}
         /\ inv[s].resp = Processed("BILLING_ISSUE")) =>
            LET rows == SelectKey(table, inv[s].userId, inv[s].entitlementId)
            IN /\ Cardinality(rows) = 1
               /\ \A r \in rows :
                     /\ r.active = TRUE
                     /\ r.expires_at = TheRow(inv[s].existing).expires_at
                     /\ Has(r.metadata, "billing_issue", TRUE)

\* a billing issue was processed on an active row that has an expiry, and the
\* row keeps its product
C17_Witness ==
    \E s \in Slots :
        /\ JustReturned(s, "BILLING_ISSUE")
        /\ inv[s].resp = Processed("BILLING_ISSUE")
        /\ inv[s].fx.writes = 1
        /\ \E r \in inv[s].existing : r.active = TRUE /\ r.expires_at # NULL
        /\ \E r \in SelectKey(table, inv[s].userId, inv[s].entitlementId) :
              /\ r.expires_at # NULL
              /\ r.product_id # NULL
              /\ Has(r.metadata, "billing_issue", TRUE)

(***************************************************************************)
(* C18: no step of any webhook or purchase invocation removes the row of a  *)
(* key that has one, and after every step the table holds at most one row   *)
(* per (profile_id, permission_id); an expiration leaves the row in place.  *)
(***************************************************************************)
C18_Step ==
    /\ \A r \in table : \E q \in table' : SameKey(q, r)
    /\ \A p \in table' : \A q \in table' : SameKey(p, q) => p = q

C18_NeverDeletedNorDuplicated == [][C18_Step]_vars

\* the row written by one request was expired by the next: it is still
\* there, the only row of its key, inactive
C18_Witness ==
    \E s \in Slots :
        /\ JustReturned(s, "EXPIRATION")
        /\ inv[s].resp = Processed("EXPIRATION")
        /\ inv[s].existing # {}
        /\ Cardinality(SelectKey(table, inv[s].userId, inv[s].entitlementId)) = 1
        /\ \A r \in SelectKey(table, inv[s].userId, inv[s].entitlementId) :
              r.active = FALSE
        /\ Cardinality(table) = 1
        /\ started = MaxRequests

(***************************************************************************)
(* C19: hasPermission(kind) is true exactly when some loaded record has     *)
(* permission_id = kind and active = true; replacing the expires_at of the  *)
(* loaded records by any other value does not change the answer, whatever   *)
(* the time.                                                                *)
(***************************************************************************)
PermissionKinds == {"product_a", "product_b", "product_c"}

StoredExpiries == {NULL} \cup {toISOString(ms) : ms \in 0..(MaxTime + 1)}

C19_PermissionCheck ==
    \A kind \in PermissionKinds :
        /\ hasPermission(userPermissions, kind)
              = (\E r \in userPermissions : r.permission_id = kind /\ r.active = TRUE)
        /\ \A x \in StoredExpiries :
              hasPermission({[r EXCEPT !.expires_at = x] : r \in userPermissions},
                            kind)
                = hasPermission(userPermissions, kind)

\* the app holds an active record that is past its expiry and that the server
\* has since expired: the permission still reads as granted
C19_Witness ==
    /\ hasPermission(userPermissions, "product_a")
    /\ \E r \in userPermissions :
          /\ r.permission_id = "product_a"
          /\ r.expires_at # NULL
          /\ DateParse(r.expires_at) <= now
          /\ \E q \in table : SameKey(q, r) /\ q.active = FALSE

(***************************************************************************)
(* C20: every result the receipt validator has returned to a purchase       *)
(* invocation is a failure, or a success with a non-null expires_at,        *)
(* entitlement_id 'product_a' and a non-null original_transaction_id.       *)
(***************************************************************************)
C20_ValidatorAllOrNothing ==
    \A s \in Slots :
        (inv[s].kind = "purchase" /\ inv[s].validation.success) =>
            /\ inv[s].validation.expires_at \notin {NULL, UNDEFINED}
            /\ inv[s].validation.entitlement_id = "product_a"
            /\ inv[s].validation.original_transaction_id \notin {NULL, UNDEFINED}

(***************************************************************************)
(* C21: for every handled event kind and every table, delivering the same   *)
(* event a second time, at the same or a later time and with no other       *)
(* writer in between, leaves the table as the first delivery left it,       *)
(* wall-clock metadata aside.                                               *)
(***************************************************************************)
C21_HandlersIdempotent ==
    /\ (replay.count >= 2 /\ replay.event \in HandledEvents) =>
          /\ StripClocks(table) = StripClocks(replay.snapshot)
          /\ Cardinality(table) = Cardinality(replay.snapshot)
    /\ \A e \in HandledEvents, later \in now..MaxTime :
          LET once == RunWebhook(Signed(RawBody(e, 0)), FALSE, FALSE, table, now)
              twice == RunWebhook(Signed(RawBody(e, 0)), FALSE, FALSE,
                                  once.table, later)
          IN /\ once.inv.resp = Processed(e.type)
             /\ twice.inv.resp = Processed(e.type)
             /\ StripClocks(twice.table) = StripClocks(once.table)
             /\ Cardinality(twice.table) = Cardinality(once.table)

\* a billing issue was delivered twice, the second time later, on the row an
\* earlier request had written
C21_Witness ==
    /\ replay.count = 2
    /\ replay.event.type = "BILLING_ISSUE"
    /\ started = 1
    /\ table # replay.snapshot
    /\ \E r \in table :
          /\ r.profile_id = replay.event.original_app_user_id
          /\ r.permission_id = replay.event.entitlement_id
          /\ Has(r.metadata, "billing_issue", TRUE)

(***************************************************************************)
(* C22: the platform of every row of the table is 'app_store' or            *)
(* 'play_store'.                                                            *)
(***************************************************************************)
C22_PlatformDomain ==
    \A r \in table : r.platform \in {"app_store", "play_store"}

(***************************************************************************)
(* C23: in every state, a purchase POST in which receipt, platform, userId  *)
(* or productId is empty or missing is answered 400 with success = false,   *)
(* having issued no datastore read, no provider call and no write.          *)
(***************************************************************************)
C23_MissingPurchaseFields ==
    /\ \A f \in {"receipt", "platform", "userId", "productId"} :
          \E req \in IncompleteRequests : req[f] = ""
    /\ \A req \in IncompleteRequests, dbError \in BOOLEAN :
          LET out == ServePurchase(req, dbError, table, now)
          IN /\ out.inv.pc = "done"
             /\ out.inv.resp.status = 400
             /\ out.inv.resp.body.success = FALSE
             /\ out.inv.fx.reads = 0
             /\ out.inv.fx.provider = {}
             /\ out.inv.fx.handler = "none"
             /\ out.inv.fx.writes = 0
             /\ out.table = table
    /\ \A s \in Slots :
          (inv[s].kind = "purchase" /\ inv[s].resp = MissingParameters) =>
              inv[s].fx.reads = 0 /\ inv[s].fx.writes = 0 /\ inv[s].fx.provider = {}

\* a purchase without productId was refused while the user's row is in the
\* table
C23_Witness ==
    \E s \in Slots :
        /\ inv[s].kind = "purchase"
        /\ inv[s].pc = "done"
        /\ inv[s].resp = MissingParameters
        /\ inv[s].productId = ""
        /\ SelectActive(table, inv[s].userId, "product_a") # {}

(***************************************************************************)
(* C24: in every state, a complete purchase request whose duplicate-check   *)
(* read returns an error is not answered by that step: it is left at the    *)
(* receipt validation exactly as the same request whose lookup succeeds and *)
(* finds no active record; and every later step of an invocation whose      *)
(* lookup failed gives the response, the effects and the row that the step  *)
(* gives to the invocation whose lookup found nothing.                      *)
(***************************************************************************)
\* the table on which the lookup of the user's active product_a record finds
\* nothing, every row kept
WithoutActive(t, userId) ==
    { IF r \in SelectActive(t, userId, "product_a") THEN [r EXCEPT !.active = FALSE] ELSE r : r \in t }

NothingFound(i) == [i EXCEPT !.permissionError = FALSE]

C24_FailedLookupNonFatal ==
    /\ \A req \in CompleteRequests :
          LET failed == ServePurchase(req, TRUE, table, now)
              none == ServePurchase(req, FALSE, WithoutActive(table, req.userId), now)
          IN /\ failed.inv.pc = "validate"
             /\ failed.inv.resp = NoResponse
             /\ failed.inv.permissionError
             /\ failed.table = table
             /\ none.inv.pc = "validate"
             /\ NothingFound(failed.inv) = none.inv
    /\ \A s \in Slots :
          (inv[s].kind = "purchase" /\ inv[s].permissionError) =>
             /\ inv[s].pc = "validate" =>
                   \A answer \in ProviderAnswers :
                       LET a == PurchaseValidate(inv[s], answer, table)
                           b == PurchaseValidate(NothingFound(inv[s]), answer,
                                                 WithoutActive(table, inv[s].userId))
                       IN /\ NothingFound(a.inv) = b.inv
                          /\ a.table = table
             /\ inv[s].pc = "upsert" =>
                   \A writeError \in BOOLEAN :
                       LET a == PurchaseUpsert(inv[s], writeError, table, now)
                           b == PurchaseUpsert(NothingFound(inv[s]), writeError,
                                               WithoutActive(table, inv[s].userId), now)
                       IN /\ NothingFound(a.inv) = b.inv
                          /\ IF writeError THEN a.table = table
                             ELSE SelectKey(a.table, inv[s].userId, "product_a")
                                    = SelectKey(b.table, inv[s].userId, "product_a")

\* the lookup of a purchase failed while the user holds an active row of the
\* same product with a future expiry: the request is at its validation
C24_Witness ==
    \E s \in Slots :
        /\ inv[s].kind = "purchase"
        /\ inv[s].pc = "validate"
        /\ inv[s].permissionError
        /\ \E r \in SelectActive(table, inv[s].userId, "product_a") :
              /\ r.expires_at # NULL
              /\ IsDuplicate(r, inv[s].productId, now)

(***************************************************************************)
(* C25: the read and the upsert of the cancellation, expiration and         *)
(* billing-issue handlers are two steps with no lock between them: in every *)
(* state where such a handler has read and not yet written, its upsert      *)
(* leaves active, expires_at and metadata as computed from the record it    *)
(* read, whatever the row holds by then.  The witness is the interleaving:  *)
(* another writer has moved the expiry since the read, and the upsert puts  *)
(* the expiry read before back.                                             *)
(***************************************************************************)
WrittenColumns == {"active", "expires_at", "metadata"}

\* the table as the handler saw it at its read
AsRead(i, t) == (t \ SelectKey(t, i.userId, i.entitlementId)) \cup i.existing

PendingUpsert(s) ==
    /\ inv[s].kind = "webhook"
    /\ inv[s].pc = "upsert"

C25_StaleReadOverwrites ==
    \A s \in Slots :
        PendingUpsert(s) =>
            LET i == inv[s]
                fresh == SelectKey(HandlerUpsert(i, FALSE, table, now).table,
                                   i.userId, i.entitlementId)
                stale == SelectKey(HandlerUpsert(i, FALSE, AsRead(i, table), now).table,
                                   i.userId, i.entitlementId)
            IN /\ Cardinality(fresh) = 1
               /\ Cardinality(stale) = 1
               /\ \A c \in WrittenColumns : TheRow(fresh)[c] = TheRow(stale)[c]
               /\ i.type \in {"EXPIRATION", "BILLING_ISSUE"} =>
                     TheRow(fresh).expires_at = ExistingExpiresAt(i.existing)

\* the expiry an activation wrote after the handler's read is still in the row
ExpiryMoved(s, before, after) ==
    /\ PendingUpsert(s)
    /\ ExistingExpiresAt(inv[s].existing) = before
    /\ \E r \in SelectKey(table, inv[s].userId, inv[s].entitlementId) :
          /\ r.expires_at = after
          /\ r.active
          /\ Has(r.metadata, "status", "active")
    /\ \A r \in SelectKey(HandlerUpsert(inv[s], FALSE, table, now).table,
                          inv[s].userId, inv[s].entitlementId) :
          /\ r.expires_at = before
          /\ "transaction_id" \notin DOMAIN r.metadata

\* an expiration handler found no record; an activation has since written the
\* row with expiry 2; the pending upsert leaves the expiry read before (none)
\* and drops the activation's metadata
C25_Witness ==
    \E s \in Slots :
        /\ inv[s].type = "EXPIRATION"
        /\ ExpiryMoved(s, NULL, toISOString(2))

\* the same with a record read: expiry 1 read, expiry 2 written since, expiry 1
\* written back (three requests)
C25_RenewalLost ==
    \E s \in Slots :
        /\ inv[s].type \in {"EXPIRATION", "BILLING_ISSUE"}
        /\ inv[s].existing # {}
        /\ PendingUpsert(s)
        /\ ExistingExpiresAt(inv[s].existing) = toISOString(1)
        /\ \E r \in SelectKey(table, inv[s].userId, inv[s].entitlementId) :
              r.expires_at = toISOString(2) /\ r.active
        /\ \A r \in SelectKey(HandlerUpsert(inv[s], FALSE, table, now).table,
                              inv[s].userId, inv[s].entitlementId) :
              r.expires_at = toISOString(1)

(***************************************************************************)
(* C26: the last upsert wins, with no comparison against the stored record: *)
(* in every state, a production RENEWAL or CANCELLATION event that          *)
(* carries an expiry and is processed leaves that expiry in the row of its  *)
(* key, whatever expiry the row held; and a CANCELLATION that has just      *)
(* returned "processed" has left the expiry of its event, later stored      *)
(* expiry or not.                                                           *)
(***************************************************************************)
\* the events of the two handlers that store the expiry of the event
\* (RENEWAL for the activation handler, which the three activation types share)
DatedEvents ==
    {e \in ProductionEvents :
        /\ e.type \in {"RENEWAL", "CANCELLATION"}
        /\ e.expiration_at_ms # NULL_MS}

C26_LastWriteWins ==
    /\ \A e \in DatedEvents :
          LET out == RunWebhook(Signed(RawBody(e, 0)), FALSE, FALSE, table, now)
              rows == SelectKey(out.table, e.original_app_user_id, e.entitlement_id)
          IN /\ out.inv.resp = Processed(e.type)
             /\ Cardinality(rows) = 1
             /\ \A r \in rows : r.expires_at = toISOString(e.expiration_at_ms)
    /\ \A s \in Slots :
          (JustReturned(s, "CANCELLATION") /\ inv[s].resp = Processed("CANCELLATION")) =>
              \A r \in SelectKey(table, inv[s].userId, inv[s].entitlementId) :
                  r.expires_at = toISOString(inv[s].expiresAt)

\* a CANCELLATION carrying expiry 1 was processed on the row an activation
\* had left with expiry 2: the row now expires at 1
C26_Witness ==
    \E s \in Slots :
        /\ JustReturned(s, "CANCELLATION")
        /\ inv[s].resp = Processed("CANCELLATION")
        /\ inv[s].expiresAt = 1
        /\ \E x \in inv[s].existing :
              /\ x.expires_at = toISOString(2)
              /\ x.active
              /\ Has(x.metadata, "status", "active")
        /\ \E r \in SelectKey(table, inv[s].userId, inv[s].entitlementId) :
              r.expires_at = toISOString(1)

(***************************************************************************)
(* C27: under the provider's retry policy and a datastore that does not     *)
(* fail forever, every signed production event of a handled kind that the   *)
(* provider holds is eventually answered 200 "processed", and in the state  *)
(* of that answer the row of its key carries the write of its handler (or   *)
(* none was due: a billing issue without a record); no invocation issues    *)
(* more than one read or one write, so a failure is never retried inside.   *)
(***************************************************************************)
\* the payload the handler of the event upserts
WriteOf(i, e, clock) ==
    IF e.type \in ActivationTypes
    THEN ActivationPayload(e.original_app_user_id, e.entitlement_id, e.product_id,
                           toLowerCase(e.store), OrZero(e.expiration_at_ms),
                           e.transaction_id, clock)
    ELSE HandlerPayload(i, clock)

NothingDue(i) == i.type = "BILLING_ISSUE" /\ NoExistingPermission(i.existing)

ProcessedApplied ==
    /\ Pending
    /\ inv[1].kind = "webhook"
    /\ inv[1].pc = "done"
    /\ inv[1].resp = Processed(replay.event.type)
    /\ LET e == replay.event
           rows == SelectKey(table, e.original_app_user_id, e.entitlement_id)
       IN IF NothingDue(inv[1])
          THEN inv[1].fx.writes = 0 /\ rows = {}
          ELSE /\ inv[1].fx.writes = 1
               /\ Cardinality(rows) = 1
               /\ \A r \in rows :
                     \A c \in DOMAIN WriteOf(inv[1], e, now) :
                         r[c] = WriteOf(inv[1], e, now)[c]

NoInternalRetry ==
    \A s \in Slots :
        /\ inv[s].fx.reads <= 1
        /\ inv[s].fx.writes <= 1
        /\ inv[s].fx.reads + inv[s].fx.writes <= 2

C27_EventuallyProcessed ==
    /\ Pending ~> ProcessedApplied
    /\ []NoInternalRetry

\* the event was answered 500 at least once and is now answered "processed"
\* with its write applied
C27_Witness ==
    /\ ProcessedApplied
    /\ replay.failed >= 1
    /\ inv[1].fx.writes = 1

(***************************************************************************)
(* C28: a cancellation, expiration or billing-issue handler that has just   *)
(* returned "processed" after its upsert has left in the row every metadata *)
(* key of the record it read that it does not set itself; an activation     *)
(* writes the four keys of its own and nothing else, so from any row that   *)
(* carries billing_issue, cancelled_at or expired_at an activation leaves   *)
(* none of them.                                                            *)
(***************************************************************************)
HandlerKeys(type) ==
    CASE type = "CANCELLATION" -> {"status", "cancelled_at", "source"}
      [] type = "EXPIRATION" -> {"status", "expired_at", "source"}
      [] OTHER -> {"billing_issue", "billing_issue_detected_at", "source"}

TransitionMarks == {"billing_issue", "cancelled_at", "expired_at"}

ActivationKeys == {"transaction_id", "updated_at", "status", "source"}

C28_MetadataMerge ==
    /\ \A s \in Slots :
          /\ (/\ inv[s].kind = "webhook" /\ inv[s].pc = "done"
               /\ inv[s].type \in ReadFirstTypes
               /\ inv[s].resp = Processed(inv[s].type)
               /\ inv[s].fx.writes = 1) =>
                 \A r \in SelectKey(table, inv[s].userId, inv[s].entitlementId) :
                     /\ HandlerKeys(inv[s].type) \subseteq DOMAIN r.metadata
                     /\ \A k \in DOMAIN ExistingMetadata(inv[s].existing)
                                     \ HandlerKeys(inv[s].type) :
                           Has(r.metadata, k, ExistingMetadata(inv[s].existing)[k])
          /\ (/\ inv[s].kind = "webhook" /\ inv[s].pc = "done"
               /\ inv[s].type \in ActivationTypes
               /\ inv[s].resp = Processed(inv[s].type)) =>
                 \A r \in SelectKey(table, inv[s].userId, inv[s].entitlementId) :
                     DOMAIN r.metadata = ActivationKeys
    /\ \A x \in table :
          (DOMAIN x.metadata \cap TransitionMarks # {}) =>
              \A e \in {a \in ActivationEvents : /\ a.original_app_user_id = x.profile_id
                                                  /\ a.entitlement_id = x.permission_id} :
                  \A r \in SelectKey(ServeWebhook(Signed(RawBody(e, 0)), FALSE, table, now).table,
                                     x.profile_id, x.permission_id) :
                      DOMAIN r.metadata = ActivationKeys

\* a BILLING_ISSUE was processed on a cancelled record: the row keeps the
\* cancelled_at it had and carries the billing-issue flag
C28_Witness ==
    \E s \in Slots :
        /\ JustReturned(s, "BILLING_ISSUE")
        /\ inv[s].resp = Processed("BILLING_ISSUE")
        /\ inv[s].fx.writes = 1
        /\ "cancelled_at" \in DOMAIN ExistingMetadata(inv[s].existing)
        /\ \E r \in SelectKey(table, inv[s].userId, inv[s].entitlementId) :
              /\ Has(r.metadata, "cancelled_at",
                      ExistingMetadata(inv[s].existing).cancelled_at)
              /\ Has(r.metadata, "billing_issue", TRUE)

(***************************************************************************)
(* C29: a CANCELLATION or BILLING_ISSUE event that has just returned        *)
(* "processed" on a record an EXPIRATION had revoked (active = false,       *)
(* metadata.status 'expired', expired_at set) has left the record with      *)
(* active = false.                                                          *)
(***************************************************************************)
Revoked(existing) ==
    \E x \in existing :
        /\ x.active = FALSE
        /\ "expired_at" \in DOMAIN x.metadata

C29_RevocationStands ==
    \A s \in Slots :
        (/\ inv[s].kind = "webhook" /\ inv[s].pc = "done"
         /\ inv[s].type \in {"CANCELLATION", "BILLING_ISSUE"}
         /\ inv[s].resp = Processed(inv[s].type)
         /\ Revoked(inv[s].existing)) =>
            \A r \in SelectKey(table, inv[s].userId, inv[s].entitlementId) :
                r.active = FALSE

(***************************************************************************)
(* C30: in every state, for a complete purchase request and the             *)
(* INITIAL_PURCHASE event of the same user, entitlement 'product_a',        *)
(* product and expiry, wherever the webhook's upsert falls among the        *)
(* purchase's read, validation and upsert, if the purchase is answered 200  *)
(* (the webhook's upsert succeeding) the key has exactly one row, active,   *)
(* with that expiry and that product.                                       *)
(***************************************************************************)
\* the event the provider sends for the purchase it has just validated
EventOfPurchase(req, answer) ==
    [KeyedEvent("INITIAL_PURCHASE", req.userId, "product_a") EXCEPT
        !.product_id = req.productId,
        !.store = IF req.platform = "ios" THEN "APP_STORE" ELSE "PLAY_STORE",
        !.expiration_at_ms = IF answer.expires_date = NULL THEN NULL_MS
                             ELSE DateParse(answer.expires_date)]

\* the webhook's single step placed before step k of the purchase (k = 3: after
\* its upsert), every datastore call succeeding
Interleaved(req, answer, k, t, clock) ==
    LET W(x) == ServeWebhook(Signed(RawBody(EventOfPurchase(req, answer), 0)),
                             FALSE, x, clock).table
        p1 == ServePurchase(req, FALSE, IF k = 0 THEN W(t) ELSE t, clock)
        t1 == IF k = 1 THEN W(p1.table) ELSE p1.table
        p2 == IF p1.inv.pc = "validate" THEN PurchaseValidate(p1.inv, answer, t1)
              ELSE Step(p1.inv, t1)
        t2 == IF k = 2 THEN W(p2.table) ELSE p2.table
        p3 == IF p2.inv.pc = "upsert" THEN PurchaseUpsert(p2.inv, FALSE, t2, clock)
              ELSE Step(p2.inv, t2)
    IN Step(p3.inv, IF k = 3 THEN W(p3.table) ELSE p3.table)

Converged(req, expiry, t) ==
    LET rows == SelectKey(t, req.userId, "product_a")
    IN /\ Cardinality(rows) = 1
       /\ \A r \in rows :
             /\ r.active = TRUE
             /\ r.expires_at = expiry
             /\ r.product_id = req.productId

C30_DualPathConvergence ==
    \A req \in CompleteRequests, answer \in ProviderAnswers, k \in 0..3 :
        LET out == Interleaved(req, answer, k, table, now)
        IN out.inv.resp.status = 200 => Converged(req, answer.expires_date, out.table)

\* the same for the purchases whose validated expiry is a date
C30_DatedConvergence ==
    \A req \in CompleteRequests, answer \in ProviderAnswers, k \in 0..3 :
        LET out == Interleaved(req, answer, k, table, now)
        IN (out.inv.resp.status = 200 /\ answer.expires_date # NULL) =>
              Converged(req, answer.expires_date, out.table)

(***************************************************************************)
(* C31: key isolation.  Every step of an invocation for the key (U, K) (K   *)
(* the entitlement of a webhook event, 'product_a' for a purchase) leaves   *)
(* every row of another key as it was, and a step of no invocation leaves   *)
(* the table as it was; the record a handler holds from its read is of its  *)
(* own key; a webhook invocation of another kind than cancellation,         *)
(* expiration and billing issue reads nothing; and in every state the       *)
(* outcome of the first step of those three kinds of event and of a         *)
(* complete purchase is the one it has on the table cut down to the rows of *)
(* its key.                                                                 *)
(***************************************************************************)
AtKey(t, u, k) == {r \in t : r.profile_id = u /\ r.permission_id = k}

Elsewhere(t, u, k) == t \ AtKey(t, u, k)

\* the key an invocation works on
KeyOf(i) == <<i.userId, IF i.kind = "purchase" THEN "product_a" ELSE i.entitlementId>>

C31_Step ==
    /\ (inv' = inv) => (table' = table)
    /\ \A s \in Slots :
          (inv'[s] # inv[s]) =>
              LET i == IF inv'[s].pc = "idle" THEN inv[s] ELSE inv'[s]
              IN Elsewhere(table', KeyOf(i)[1], KeyOf(i)[2])
                   = Elsewhere(table, KeyOf(i)[1], KeyOf(i)[2])

C31_Reads ==
    /\ \A s \in Slots : \A x \in inv[s].existing :
          x.profile_id = inv[s].userId /\ x.permission_id = inv[s].entitlementId
    /\ \A s \in Slots :
          (inv[s].kind = "webhook" /\ inv[s].type \notin ReadFirstTypes) =>
              inv[s].fx.reads = 0
    /\ \A e \in ReadFirstEvents :
          LET req == Signed(RawBody(e, 0))
              own == AtKey(table, e.original_app_user_id, e.entitlement_id)
          IN ServeWebhook(req, FALSE, table, now).inv
               = ServeWebhook(req, FALSE, own, now).inv
    /\ \A req \in CompleteRequests :
          ServePurchase(req, FALSE, table, now).inv
            = ServePurchase(req, FALSE, AtKey(table, req.userId, "product_a"), now).inv

C31_KeyIsolation == []C31_Reads /\ [][C31_Step]_vars

\* a webhook event for (u2, product_b) has been processed with its write while
\* the same user holds the row (u2, product_a) a purchase wrote
C31_Witness ==
    \E s \in Slots :
        /\ inv[s].kind = "webhook"
        /\ inv[s].pc = "done"
        /\ inv[s].resp = Processed(inv[s].type)
        /\ inv[s].fx.writes = 1
        /\ inv[s].userId = "u2"
        /\ inv[s].entitlementId = "product_b"
        /\ AtKey(table, "u2", "product_b") # {}
        /\ \E r \in AtKey(table, "u2", "product_a") :
              "purchase_date" \in DOMAIN r.metadata

(***************************************************************************)
(* C32: a step that changes the product_id or the platform of a row, or     *)
(* that inserts a row with one of them set, is the upsert of an activation  *)
(* event or of the purchase endpoint; so the upsert of a cancellation,      *)
(* expiration or billing-issue handler leaves both as the row had them.     *)
(***************************************************************************)
ProductWriter(i) ==
    /\ i.pc = "done"
    /\ i.fx.writes = 1
    /\ \/ i.kind = "purchase"
       \/ i.kind = "webhook" /\ i.type \in ActivationTypes

C32_Step ==
    \A q \in table' :
        LET before == {r \in table : r.profile_id = q.profile_id
                                      /\ r.permission_id = q.permission_id}
            changed == IF before = {}
                       THEN q.product_id # NULL \/ q.platform # NULL
                       ELSE \E r \in before : \/ q.product_id # r.product_id
                                                \/ q.platform # r.platform
        IN changed =>
              \E s \in Slots :
                  /\ inv'[s] # inv[s]
                  /\ ProductWriter(inv'[s])
                  /\ q.profile_id = inv'[s].userId

C32_ProductAndPlatformKept == [][C32_Step]_vars

\* an expiration has been processed on a record that had a product and a
\* store: the row, now inactive, has them still
C32_Witness ==
    \E s \in Slots :
        /\ JustReturned(s, "EXPIRATION")
        /\ inv[s].resp = Processed("EXPIRATION")
        /\ inv[s].fx.writes = 1
        /\ \E x \in inv[s].existing :
              /\ x.product_id = "sku_year"
              /\ x.platform = "play_store"
              /\ \E r \in table :
                    /\ r.profile_id = x.profile_id
                    /\ r.permission_id = x.permission_id
                    /\ r.active = FALSE
                    /\ r.product_id = "sku_year"
                    /\ r.platform = "play_store"

(***************************************************************************)
(* C33: processEventBuffer makes at most one send attempt per event; and    *)
(* when it has returned after its loop, every event that was in the buffer  *)
(* when it started has been attempted once, an event whose send failed is   *)
(* in the buffer exactly once, and an event whose send succeeded is not in  *)
(* the buffer.                                                              *)
(***************************************************************************)
Occurrences(buffer, e) == Cardinality({k \in 1..Len(buffer) : buffer[k] = e})

Elements(buffer) == {buffer[k] : k \in 1..Len(buffer)}

C33_FlushOncePerEvent ==
    /\ \A e \in EventIds : flush.attempts[e] <= 1
    /\ (flush.pc = "done" /\ flush.index > 0) =>
          \A e \in Elements(flush.atStart) :
              /\ flush.attempts[e] = 1
              /\ e \in flush.successfulEvents => Occurrences(eventBuffer, e) = 0
              /\ e \notin flush.successfulEvents => Occurrences(eventBuffer, e) = 1

\* a failed send leaves the iterator as far from the end of the array as it
\* was: the loop ends only after as many successful sends as the buffer had
\* events left
FailedSendStep ==
    /\ flush.pc = "loop"
    /\ flush'.pc = "loop"
    /\ Len(eventBuffer') > Len(eventBuffer)
    /\ flush'.index # flush.index

LoopDistanceKept ==
    FailedSendStep =>
        /\ Len(eventBuffer') - flush'.index = Len(eventBuffer) - flush.index
        /\ flush'.index <= Len(eventBuffer')

C33_FailedSendNoProgress == [][LoopDistanceKept]_vars

====
